---- MODULE Spec2Model ----
(***************************************************************************)
(* HRMS server (server.js): the REST handlers over the relational schema   *)
(* that setupTables creates.  Every handler issues one parameterized SQL   *)
(* statement through pool.query and formats the result; a handler without  *)
(* try/catch whose query is rejected by the store sends no response (what   *)
(* the runtime then does with the unhandled rejection is not the handler's *)
(* doing and is not modelled).  The relationship reads of general.js are   *)
(* handlers written against the same app and pool; their behaviour is      *)
(* modelled as that of routes of the same server, while the router section *)
(* holds the routes that server.js itself registers.                       *)
(*                                                                         *)
(* A column value is an option: NULL is the empty set and a present value  *)
(* v is {v}.  A row is a function from column names to column values, a    *)
(* table a function from primary keys to rows.                             *)
(***************************************************************************)
EXTENDS Integers, FiniteSets, Sequences, TLC

VARIABLES
    tables,     \* table name -> (id -> row): the rows of the store
    seq,        \* table name -> next value of the table's SERIAL sequence
    pre,        \* history: `tables` as it was when the last request arrived
    preSeq,     \* history: `seq` as it was when the last request arrived
    req,        \* the last request handled (method, route, :id, body)
    resp,       \* what the handler of `req` sent back
    flight,     \* requests in flight together: slot -> phase, request, result, response
    executed,   \* history: the slots of `flight`, in the order their statements ran
    dispatched  \* the router's last dispatch: method, path, the handlers it ran

vars == <<tables, seq, pre, preSeq, req, resp, flight, executed, dispatched>>

-----------------------------------------------------------------------------
(* Bounds of the model.                                                    *)

\* Sequence values handed out in one run, over all tables.
MaxInserts == 2

\* Path parameters :id range over the ids a run can assign; whatever the run
\* has done, some of them (as a rule most) were never assigned.
Ids == 1 .. MaxInserts

\* Requests that are in flight together in one run.
MaxInFlight == 2

\* Segments of a request path handed to the router.
MaxSegments == 3

-----------------------------------------------------------------------------
(* Column values.                                                          *)

NULL == {}
Some(v) == {v}

\* JavaScript falsiness of a body field holding a string: undefined/null
\* and the empty string are falsy (the `||` of app.post("/leaves")).
Falsy(v) == v = NULL \/ v = Some("")

\* CURRENT_TIMESTAMP: some non-null instant; its value is not modelled.
CurrentTimestamp == Some("now")

-----------------------------------------------------------------------------
(* The schema of setupTables.                                              *)

TableNames ==
    {"departments", "employees", "attendance_logs", "leave_policies", "leaves",
     "leave_balances", "feedbacks", "projects", "timesheets"}

Columns(t) ==
    CASE t = "departments"     -> {"id", "name"}
      [] t = "employees"       -> {"id", "name", "email", "phone", "doj", "department_id",
                                   "designation", "basic_salary", "pf_applicable",
                                   "esi_applicable", "pan_number", "aadhaar_number",
                                   "status", "created_at"}
      [] t = "attendance_logs" -> {"id", "employee_id", "date", "check_in", "check_out",
                                   "status"}
      [] t = "leave_policies"  -> {"id", "name", "days_per_year", "carry_forward"}
      [] t = "leaves"          -> {"id", "employee_id", "type", "start_date", "end_date",
                                   "status", "applied_on"}
      [] t = "leave_balances"  -> {"id", "employee_id", "leave_type", "balance"}
      [] t = "feedbacks"       -> {"id", "from_employee", "to_employee", "message",
                                   "submitted_on"}
      [] t = "projects"        -> {"id", "name", "client"}
      [] t = "timesheets"      -> {"id", "employee_id", "project_id", "log_date", "hours",
                                   "notes"}

\* NOT NULL columns (the primary key apart).
NotNullColumns(t) ==
    CASE t = "departments" -> {"name"}
      [] t = "employees"   -> {"name", "email"}
      [] OTHER             -> {}

\* UNIQUE columns (the primary key apart).
UniqueColumns(t) ==
    CASE t = "employees" -> {"email"}
      [] OTHER           -> {}

\* DEFAULT clauses (the SERIAL id apart): column -> default value.
ColumnDefault(t, c) ==
    CASE t = "employees" /\ c \in {"pf_applicable", "esi_applicable"} -> Some(TRUE)
      [] t = "employees" /\ c = "status"                              -> Some("Active")
      [] t = "employees" /\ c = "created_at"                          -> CurrentTimestamp
      [] t = "leave_policies" /\ c = "carry_forward"                  -> Some(FALSE)
      [] t = "leaves" /\ c = "status"                                 -> Some("Pending")
      [] t = "leaves" /\ c = "applied_on"                             -> CurrentTimestamp
      [] t = "feedbacks" /\ c = "submitted_on"                        -> CurrentTimestamp
      [] OTHER                                                        -> NULL

\* REFERENCES clauses: <<referencing table, column, referenced table>>.
ForeignKeys ==
    {<<"employees", "department_id", "departments">>,
     <<"attendance_logs", "employee_id", "employees">>,
     <<"leaves", "employee_id", "employees">>,
     <<"leave_balances", "employee_id", "employees">>,
     <<"feedbacks", "from_employee", "employees">>,
     <<"feedbacks", "to_employee", "employees">>,
     <<"timesheets", "employee_id", "employees">>,
     <<"timesheets", "project_id", "projects">>}

-----------------------------------------------------------------------------
(* The store: what one statement sent through pool.query does.             *)
(* A result is [ok, rows, rowCount, tables, seq]: ok = FALSE is a rejected *)
(* promise (the statement failed and changed no row).                      *)

\* A schema without the REFERENCES clauses: every value is accepted.
ReferencesHold_Unchecked(tbls, t, row) == TRUE

\* The row's foreign keys all name existing rows (or are NULL).
ReferencesHold(tbls, t, row) ==
    \A fk \in ForeignKeys :
        fk[1] = t => (row[fk[2]] = NULL \/ \E k \in DOMAIN tbls[fk[3]] : row[fk[2]] = Some(k))

\* NOT NULL and UNIQUE hold of `row`, to be stored in t under key id.
RowConstraintsHold(tbls, t, id, row) ==
    /\ \A c \in NotNullColumns(t) : row[c] # NULL
    /\ \A c \in UniqueColumns(t) :
           row[c] = NULL \/ \A k \in DOMAIN tbls[t] \ {id} : tbls[t][k][c] # row[c]
    /\ ReferencesHold(tbls, t, row)

\* Some row of another table references row id of t.
IsReferenced(tbls, t, id) ==
    \E fk \in ForeignKeys :
        fk[3] = t /\ \E k \in DOMAIN tbls[fk[1]] : tbls[fk[1]][k][fk[2]] = Some(id)

Failure(tbls, sq) ==
    [ok |-> FALSE, rows |-> {}, rowCount |-> 0, tables |-> tbls, seq |-> sq]

\* An id column filled with the smallest id no row has (MAX(id) + 1 after the
\* last row, a freed id otherwise) in place of the sequence's value.
InsertReturning_ReusesIds(tbls, sq, t, cols, vals) ==
    IF ~(cols \subseteq Columns(t)) THEN Failure(tbls, sq)
    ELSE
        LET id  == CHOOSE k \in 1 .. sq[t] :
                       k \notin DOMAIN tbls[t] /\ \A j \in 1 .. (k - 1) : j \in DOMAIN tbls[t]
            row == [c \in Columns(t) |->
                        IF c = "id" THEN Some(id)
                        ELSE IF c \in cols THEN vals[c]
                        ELSE ColumnDefault(t, c)]
            sq2 == [sq EXCEPT ![t] = sq[t] + 1]
        IN  IF RowConstraintsHold(tbls, t, id, row)
            THEN [ok |-> TRUE, rows |-> {row}, rowCount |-> 1,
                  tables |-> [tbls EXCEPT ![t] = (id :> row) @@ tbls[t]], seq |-> sq2]
            ELSE Failure(tbls, sq2)

\* INSERT INTO t (cols) VALUES (vals[c] ...) RETURNING *
\* A column that t does not have fails the statement before anything runs. The
\* id is taken from the sequence, which keeps the value even when a constraint
\* then rejects the row.
InsertReturning(tbls, sq, t, cols, vals) ==
    IF ~(cols \subseteq Columns(t)) THEN Failure(tbls, sq)
    ELSE
        LET id  == sq[t]
            row == [c \in Columns(t) |->
                        IF c = "id" THEN Some(id)
                        ELSE IF c \in cols THEN vals[c]
                        ELSE ColumnDefault(t, c)]
            sq2 == [sq EXCEPT ![t] = id + 1]
        IN  IF RowConstraintsHold(tbls, t, id, row)
            THEN [ok |-> TRUE, rows |-> {row}, rowCount |-> 1,
                  tables |-> [tbls EXCEPT ![t] = (id :> row) @@ tbls[t]], seq |-> sq2]
            ELSE Failure(tbls, sq2)

\* UPDATE t SET c = vals[c] ... WHERE id = :id [RETURNING *]
UpdateWhereId(tbls, sq, t, cols, vals, id) ==
    IF ~(cols \subseteq Columns(t)) THEN Failure(tbls, sq)
    ELSE IF id \notin DOMAIN tbls[t]
    THEN [ok |-> TRUE, rows |-> {}, rowCount |-> 0, tables |-> tbls, seq |-> sq]
    ELSE
        LET row == [c \in Columns(t) |-> IF c \in cols THEN vals[c] ELSE tbls[t][id][c]]
        IN  IF RowConstraintsHold(tbls, t, id, row)
            THEN [ok |-> TRUE, rows |-> {row}, rowCount |-> 1,
                  tables |-> [tbls EXCEPT ![t][id] = row], seq |-> sq]
            ELSE Failure(tbls, sq)

\* A SELECT ... WHERE id = :id sent in place of the DELETE: the row is reported
\* and stays.
DeleteWhereId_KeepsRow(tbls, sq, t, id) ==
    [ok |-> TRUE, rows |-> {tbls[t][k] : k \in DOMAIN tbls[t] \cap {id}},
     rowCount |-> Cardinality(DOMAIN tbls[t] \cap {id}), tables |-> tbls, seq |-> sq]

\* DELETE FROM t WHERE id = :id [RETURNING *]
\* The REFERENCES clauses carry no ON DELETE action: deleting a row that is
\* still referenced fails.
DeleteWhereId(tbls, sq, t, id) ==
    IF id \notin DOMAIN tbls[t]
    THEN [ok |-> TRUE, rows |-> {}, rowCount |-> 0, tables |-> tbls, seq |-> sq]
    ELSE IF IsReferenced(tbls, t, id) THEN Failure(tbls, sq)
    ELSE [ok |-> TRUE, rows |-> {tbls[t][id]}, rowCount |-> 1,
          tables |-> [tbls EXCEPT ![t] = [k \in DOMAIN tbls[t] \ {id} |-> tbls[t][k]]],
          seq |-> sq]

\* SELECT * FROM t WHERE id = :id
SelectWhereId(tbls, sq, t, id) ==
    [ok |-> TRUE, rows |-> {tbls[t][k] : k \in DOMAIN tbls[t] \cap {id}},
     rowCount |-> Cardinality(DOMAIN tbls[t] \cap {id}), tables |-> tbls, seq |-> sq]

\* SELECT * FROM t
SelectAll(tbls, sq, t) ==
    [ok |-> TRUE, rows |-> {tbls[t][k] : k \in DOMAIN tbls[t]},
     rowCount |-> Cardinality(DOMAIN tbls[t]), tables |-> tbls, seq |-> sq]

\* A statement the store rejects with `message` (err.message of the rejection).
FailureWith(tbls, sq, message) ==
    [ok |-> FALSE, rows |-> {}, rowCount |-> 0, tables |-> tbls, seq |-> sq,
     message |-> message]

\* SELECT * FROM t WHERE <condition>: the rows the condition is true of (a
\* comparison with NULL is not true), `keys` being their primary keys.
SelectWhere(tbls, sq, t, keys) ==
    [ok |-> TRUE, rows |-> {tbls[t][k] : k \in keys}, rowCount |-> Cardinality(keys),
     tables |-> tbls, seq |-> sq]

\* The primary keys of the rows of t.
Keys(t) == DOMAIN tables[t]

\* Dates.  A date column holds a day number; a date parameter arrives as text
\* and the store converts it, rejecting the statement when the text is no date.
DayTexts == ("2024-01-01" :> 1) @@ ("2024-01-02" :> 2)
InvalidDateMessage == "invalid input syntax for type date"
ParseDate(text) ==
    IF text \in DOMAIN DayTexts THEN [ok |-> TRUE, day |-> DayTexts[text]]
    ELSE [ok |-> FALSE, day |-> 0]

\* x BETWEEN lo AND hi, on day numbers: both ends inclusive, not true of NULL.
Between(x, lo, hi) == \E d \in lo .. hi : x = Some(d)

-----------------------------------------------------------------------------
(* Requests and responses.                                                 *)

\* A JSON body is a function from field names to values; destructuring a
\* field the body does not carry gives undefined, which pg binds as NULL.
NoBody == [f \in {} |-> NULL]
Field(body, f) == IF f \in DOMAIN body THEN body[f] ELSE NULL
Pick(body, fields) == [f \in fields |-> Field(body, f)]

Request(method, route, id, body) ==
    [method |-> method, route |-> route, id |-> id, body |-> body]

\* A GET with path parameter :id and further parameters (req.query, or a path
\* parameter that is not an id): a function from names to texts; a parameter
\* the request does not carry is undefined, which pg binds as NULL.
QueryRequest(route, id, query) ==
    [method |-> "GET", route |-> route, id |-> id, body |-> NoBody, query |-> query]

\* No request is being handled: the server waits for the next one.
NoRequest == Request("NONE", "", 0, NoBody)

\* Response bodies.
EmptyBody == [kind |-> "empty"]
TextBody(s) == [kind |-> "text", text |-> s]
ErrorBody(m) == [kind |-> "error", error |-> m]
MessageBody(m) == [kind |-> "message", message |-> m]
RowsBody(rows) == [kind |-> "rows", rows |-> rows]
\* res.json(result.rows[0]): rows[0] of an empty result is undefined, and
\* res.json(undefined) sends an empty body.
FirstRowBody(rows) ==
    IF rows = {} THEN EmptyBody ELSE [kind |-> "row", row |-> CHOOSE r \in rows : TRUE]

\* One call of res.json / res.send / res.sendStatus; `sends` counts the calls
\* the handler made on res for this request.
Response(status, body) ==
    [sent |-> TRUE, sends |-> 1, status |-> status, body |-> body]
\* The handler's promise was rejected before it reached res: nothing is sent.
NoResponse == [sent |-> FALSE, sends |-> 0, status |-> 0, body |-> [kind |-> "none"]]

\* res.status(code).end() in place of res.sendStatus(code): no body.
SendStatus_NoBody(code) == Response(code, EmptyBody)

\* res.sendStatus(code): the status with its reason phrase as the body.
SendStatus(code) == Response(code, TextBody(IF code = 200 THEN "OK" ELSE "?"))

\* The slots of the requests in flight together, and a slot no request has
\* taken.
Slots == 1 .. MaxInFlight
NoFlight ==
    [phase |-> "none", request |-> NoRequest, result |-> [ok |-> FALSE],
     resp |-> NoResponse]

\* The router has dispatched nothing yet.
NoDispatch == [method |-> "NONE", path |-> <<>>, ran |-> <<>>]

\* Sequence values handed out so far, over the nine tables.
Inserted ==
    (seq["departments"] - 1) + (seq["employees"] - 1) + (seq["attendance_logs"] - 1)
    + (seq["leave_policies"] - 1) + (seq["leaves"] - 1) + (seq["leave_balances"] - 1)
    + (seq["feedbacks"] - 1) + (seq["projects"] - 1) + (seq["timesheets"] - 1)
InsertBudget == Inserted < MaxInserts

\* The server handles one request at a time; a handler runs when it is idle.
Idle == req = NoRequest

\* An async handler with no try/catch: `await pool.query` either yields the
\* result, and the handler then sends `response`, or throws, and nothing is sent.
Handle(r, result, response) ==
    /\ req' = r
    /\ pre' = tables
    /\ preSeq' = seq
    /\ tables' = result.tables
    /\ seq' = result.seq
    /\ resp' = IF result.ok THEN response ELSE NoResponse
    /\ UNCHANGED <<flight, executed, dispatched>>

\* An async handler whose query sits in try/catch: the catch block answers 500
\* with {error: err.message}.
HandleCaught(r, result, response) ==
    /\ req' = r
    /\ pre' = tables
    /\ preSeq' = seq
    /\ tables' = result.tables
    /\ seq' = result.seq
    /\ resp' = IF result.ok THEN response ELSE Response(500, ErrorBody(result.message))
    /\ UNCHANGED <<flight, executed, dispatched>>

\* The response shapes the CRUD handlers share.
\* GET /T/:id with the rows.length check left out, as PUT /employees/:id does.
RowOrNotFound_Unchecked(result, notFound) ==
    Response(200, FirstRowBody(result.rows))

\* GET /T/:id
RowOrNotFound(result, notFound) ==
    IF Cardinality(result.rows) = 0 THEN Response(404, ErrorBody(notFound))
    ELSE Response(200, FirstRowBody(result.rows))
\* PUT /T/:id
UpdatedOrNotFound(result, notFound) ==
    IF result.rowCount = 0 THEN Response(404, ErrorBody(notFound))
    ELSE Response(200, FirstRowBody(result.rows))
\* DELETE /T/:id with the rowCount check left out, as the leave workflow does.
DeletedOrNotFound_Unchecked(result, notFound, deleted) ==
    Response(200, MessageBody(deleted))

\* DELETE /T/:id with `return` left out of the 404 branch: the handler goes on
\* to call res.json a second time.
DeletedOrNotFound_NoReturn(result, notFound, deleted) ==
    IF result.rowCount = 0
    THEN [Response(404, ErrorBody(notFound)) EXCEPT !.sends = 2]
    ELSE Response(200, MessageBody(deleted))

\* DELETE /T/:id
DeletedOrNotFound(result, notFound, deleted) ==
    IF result.rowCount = 0 THEN Response(404, ErrorBody(notFound))
    ELSE Response(200, MessageBody(deleted))

-----------------------------------------------------------------------------
(* Departments.                                                            *)

DepartmentBodies ==
    {[name |-> Some("Engineering"), id |-> Some(3)], [name |-> NULL]}

DepartmentUpdateBodies ==
    {[name |-> Some("Sales"), id |-> Some(3)], [name |-> NULL]}

\* GET /departments answered from a module-level cache that an earlier request
\* filled: the departments that were stored at that moment and still are.
ListDepartments_Cached ==
    /\ Idle
    /\ \E cached \in SUBSET Keys("departments") :
           LET result == SelectWhere(tables, seq, "departments", cached)
           IN  Handle(Request("GET", "/departments", 0, NoBody), result,
                      Response(200, RowsBody(result.rows)))

ListDepartments ==
    /\ Idle
    /\ LET result == SelectAll(tables, seq, "departments")
       IN  Handle(Request("GET", "/departments", 0, NoBody), result,
                  Response(200, RowsBody(result.rows)))

GetDepartment ==
    /\ Idle
    /\ \E id \in Ids :
           LET result == SelectWhereId(tables, seq, "departments", id)
           IN  Handle(Request("GET", "/departments/:id", id, NoBody), result,
                      RowOrNotFound(result, "Department not found"))

\* POST /departments wrapped in a retry: a rejected INSERT is issued once more.
CreateDepartment_Retries ==
    /\ Idle
    /\ InsertBudget
    /\ \E body \in DepartmentBodies :
        LET first  == InsertReturning(tables, seq, "departments", {"name"},
                                      Pick(body, {"name"}))
            result == IF first.ok THEN first
                      ELSE InsertReturning(first.tables, first.seq, "departments",
                                           {"name"}, Pick(body, {"name"}))
        IN  Handle(Request("POST", "/departments", 0, body), result,
                   Response(201, FirstRowBody(result.rows)))

CreateDepartment ==
    /\ Idle
    /\ InsertBudget
    /\ \E body \in DepartmentBodies :
        LET result == InsertReturning(tables, seq, "departments", {"name"},
                                      Pick(body, {"name"}))
        IN  Handle(Request("POST", "/departments", 0, body), result,
                   Response(201, FirstRowBody(result.rows)))

UpdateDepartment ==
    /\ Idle
    /\ \E id \in Ids, body \in DepartmentUpdateBodies :
           LET result == UpdateWhereId(tables, seq, "departments", {"name"},
                                       Pick(body, {"name"}), id)
           IN  Handle(Request("PUT", "/departments/:id", id, body), result,
                      UpdatedOrNotFound(result, "Department not found"))

DeleteDepartment ==
    /\ Idle
    /\ \E id \in Ids :
           LET result == DeleteWhereId(tables, seq, "departments", id)
           IN  Handle(Request("DELETE", "/departments/:id", id, NoBody), result,
                      DeletedOrNotFound(result, "Department not found", "Deleted successfully"))

-----------------------------------------------------------------------------
(* Employees.                                                              *)

EmployeeBodies ==
    {[name |-> Some("Ada"), email |-> Some("ada@x.com"), phone |-> NULL, doj |-> NULL],
     [name |-> Some("Bob"), email |-> Some("bob@x.com"), phone |-> Some("555"),
      doj |-> Some(1), department_id |-> Some(1), status |-> Some("Inactive"),
      id |-> Some(3)],
     [name |-> NULL, email |-> Some("eve@x.com"), phone |-> NULL, doj |-> NULL]}

EmployeeUpdateBodies ==
    {[name |-> Some("Ada L"), phone |-> Some("777"), department_id |-> Some(1),
      id |-> Some(3)],
     [name |-> NULL, phone |-> NULL]}

ListEmployees ==
    /\ Idle
    /\ LET result == SelectAll(tables, seq, "employees")
       IN  Handle(Request("GET", "/employees", 0, NoBody), result,
                  Response(200, RowsBody(result.rows)))

GetEmployee ==
    /\ Idle
    /\ \E id \in Ids :
           LET result == SelectWhereId(tables, seq, "employees", id)
           IN  Handle(Request("GET", "/employees/:id", id, NoBody), result,
                      RowOrNotFound(result, "Employee not found"))

\* POST /employees that also takes department_id from the body.
CreateEmployee_WithDepartment ==
    /\ Idle
    /\ InsertBudget
    /\ \E body \in EmployeeBodies :
        LET cols == {"name", "email", "phone", "doj", "department_id"}
            result == InsertReturning(tables, seq, "employees", cols, Pick(body, cols))
        IN  Handle(Request("POST", "/employees", 0, body), result,
                   Response(201, FirstRowBody(result.rows)))

CreateEmployee ==
    /\ Idle
    /\ InsertBudget
    /\ \E body \in EmployeeBodies :
        LET cols == {"name", "email", "phone", "doj"}
            result == InsertReturning(tables, seq, "employees", cols, Pick(body, cols))
        IN  Handle(Request("POST", "/employees", 0, body), result,
                   Response(201, FirstRowBody(result.rows)))

\* PUT /employees/:id with the rowCount check of the other groups.
UpdateEmployee_Checked ==
    /\ Idle
    /\ \E id \in Ids, body \in EmployeeUpdateBodies :
           LET cols == {"name", "phone"}
               result == UpdateWhereId(tables, seq, "employees", cols, Pick(body, cols), id)
           IN  Handle(Request("PUT", "/employees/:id", id, body), result,
                      UpdatedOrNotFound(result, "Employee not found"))

\* No rowCount check: the first row of the result, if any, with 200.
UpdateEmployee ==
    /\ Idle
    /\ \E id \in Ids, body \in EmployeeUpdateBodies :
           LET cols == {"name", "phone"}
               result == UpdateWhereId(tables, seq, "employees", cols, Pick(body, cols), id)
           IN  Handle(Request("PUT", "/employees/:id", id, body), result,
                      Response(200, FirstRowBody(result.rows)))

\* DELETE /employees/:id with the rowCount check of the other groups.
DeleteEmployee_Checked ==
    /\ Idle
    /\ \E id \in Ids :
           LET result == DeleteWhereId(tables, seq, "employees", id)
           IN  Handle(Request("DELETE", "/employees/:id", id, NoBody), result,
                      IF result.rowCount = 0 THEN Response(404, ErrorBody("Employee not found"))
                      ELSE Response(204, EmptyBody))

\* No RETURNING, no rowCount check: 204 whatever the statement deleted.
DeleteEmployee ==
    /\ Idle
    /\ \E id \in Ids :
           LET result == DeleteWhereId(tables, seq, "employees", id)
           IN  Handle(Request("DELETE", "/employees/:id", id, NoBody), result,
                      Response(204, EmptyBody))

-----------------------------------------------------------------------------
(* Leave policies.  The handlers name the columns policy_name, description *)
(* and max_leaves.                                                         *)

LeavePolicyBodies ==
    {[policy_name |-> Some("Annual"), description |-> Some("Paid"), max_leaves |-> Some(20)],
     [name |-> Some("Annual"), days_per_year |-> Some(20)]}

LeavePolicyColumns == {"policy_name", "description", "max_leaves"}

ListLeavePolicies ==
    /\ Idle
    /\ LET result == SelectAll(tables, seq, "leave_policies")
       IN  Handle(Request("GET", "/leave_policies", 0, NoBody), result,
                  Response(200, RowsBody(result.rows)))

GetLeavePolicy ==
    /\ Idle
    /\ \E id \in Ids :
           LET result == SelectWhereId(tables, seq, "leave_policies", id)
           IN  Handle(Request("GET", "/leave_policies/:id", id, NoBody), result,
                      RowOrNotFound(result, "Leave policy not found"))

CreateLeavePolicy ==
    /\ Idle
    /\ InsertBudget
    /\ \E body \in LeavePolicyBodies :
        LET result == InsertReturning(tables, seq, "leave_policies", LeavePolicyColumns,
                                      Pick(body, LeavePolicyColumns))
        IN  Handle(Request("POST", "/leave_policies", 0, body), result,
                   Response(201, FirstRowBody(result.rows)))

UpdateLeavePolicy ==
    /\ Idle
    /\ \E id \in Ids, body \in LeavePolicyBodies :
           LET result == UpdateWhereId(tables, seq, "leave_policies", LeavePolicyColumns,
                                       Pick(body, LeavePolicyColumns), id)
           IN  Handle(Request("PUT", "/leave_policies/:id", id, body), result,
                      UpdatedOrNotFound(result, "Leave policy not found"))

DeleteLeavePolicy ==
    /\ Idle
    /\ \E id \in Ids :
           LET result == DeleteWhereId(tables, seq, "leave_policies", id)
           IN  Handle(Request("DELETE", "/leave_policies/:id", id, NoBody), result,
                      DeletedOrNotFound(result, "Leave policy not found",
                                        "Leave policy deleted successfully"))

-----------------------------------------------------------------------------
(* Leaves.                                                                 *)

LeaveBodies ==
    {[employee_id |-> NULL, type |-> Some("Sick"), start_date |-> Some(1),
      end_date |-> Some(2), status |-> NULL],
     [employee_id |-> Some(1), type |-> Some("Sick"), start_date |-> Some(1),
      end_date |-> Some(2), status |-> Some("")],
     [employee_id |-> NULL, type |-> Some("Sick"), start_date |-> Some(1),
      end_date |-> Some(2), status |-> Some("Approved")]}

\* The body carries no status, and an employee_id the handler does not read.
LeaveUpdateBodies ==
    {[type |-> Some("Casual"), start_date |-> Some(3), end_date |-> Some(4),
      employee_id |-> Some(2)]}

ListLeaves ==
    /\ Idle
    /\ LET result == SelectAll(tables, seq, "leaves")
       IN  Handle(Request("GET", "/leaves", 0, NoBody), result,
                  Response(200, RowsBody(result.rows)))

GetLeave ==
    /\ Idle
    /\ \E id \in Ids :
           LET result == SelectWhereId(tables, seq, "leaves", id)
           IN  Handle(Request("GET", "/leaves/:id", id, NoBody), result,
                      RowOrNotFound(result, "Leave not found"))

\* status || 'Pending'
\* POST /leaves without the `|| "Pending"`: the status of the body as it comes.
CreateLeave_NoDefault ==
    /\ Idle
    /\ InsertBudget
    /\ \E body \in LeaveBodies :
        LET cols == {"employee_id", "type", "start_date", "end_date", "status"}
            result == InsertReturning(tables, seq, "leaves", cols, Pick(body, cols))
        IN  Handle(Request("POST", "/leaves", 0, body), result,
                   Response(201, FirstRowBody(result.rows)))

CreateLeave ==
    /\ Idle
    /\ InsertBudget
    /\ \E body \in LeaveBodies :
        LET cols == {"employee_id", "type", "start_date", "end_date", "status"}
            status == Field(body, "status")
            vals == [Pick(body, cols) EXCEPT
                        !["status"] = IF Falsy(status) THEN Some("Pending") ELSE status]
            result == InsertReturning(tables, seq, "leaves", cols, vals)
        IN  Handle(Request("POST", "/leaves", 0, body), result,
                   Response(201, FirstRowBody(result.rows)))

\* PUT /leaves/:id with SET status = COALESCE($4, status): a body without
\* status keeps the status of the row.
UpdateLeave_KeepsStatus ==
    /\ Idle
    /\ \E id \in Ids, body \in LeaveUpdateBodies :
           LET cols == {"type", "start_date", "end_date", "status"}
               given == IF Field(body, "status") = NULL THEN cols \ {"status"} ELSE cols
               result == UpdateWhereId(tables, seq, "leaves", given, Pick(body, given), id)
           IN  Handle(Request("PUT", "/leaves/:id", id, body), result,
                      UpdatedOrNotFound(result, "Leave not found"))

UpdateLeave ==
    /\ Idle
    /\ \E id \in Ids, body \in LeaveUpdateBodies :
           LET cols == {"type", "start_date", "end_date", "status"}
               result == UpdateWhereId(tables, seq, "leaves", cols, Pick(body, cols), id)
           IN  Handle(Request("PUT", "/leaves/:id", id, body), result,
                      UpdatedOrNotFound(result, "Leave not found"))

DeleteLeave ==
    /\ Idle
    /\ \E id \in Ids :
           LET result == DeleteWhereId(tables, seq, "leaves", id)
           IN  Handle(Request("DELETE", "/leaves/:id", id, NoBody), result,
                      DeletedOrNotFound(result, "Leave not found", "Leave deleted successfully"))

-----------------------------------------------------------------------------
(* Leave balances.                                                         *)

LeaveBalanceBodies ==
    {[employee_id |-> NULL, leave_type |-> Some("Sick"), balance |-> Some(10)],
     [employee_id |-> Some(1), leave_type |-> Some("Casual"), balance |-> NULL]}

\* The body carries no leave_type, and an employee_id the handler does not read.
LeaveBalanceUpdateBodies ==
    {[balance |-> Some(5), employee_id |-> Some(2)]}

ListLeaveBalances ==
    /\ Idle
    /\ LET result == SelectAll(tables, seq, "leave_balances")
       IN  Handle(Request("GET", "/leave_balances", 0, NoBody), result,
                  Response(200, RowsBody(result.rows)))

GetLeaveBalance ==
    /\ Idle
    /\ \E id \in Ids :
           LET result == SelectWhereId(tables, seq, "leave_balances", id)
           IN  Handle(Request("GET", "/leave_balances/:id", id, NoBody), result,
                      RowOrNotFound(result, "Leave balance not found"))

CreateLeaveBalance ==
    /\ Idle
    /\ InsertBudget
    /\ \E body \in LeaveBalanceBodies :
        LET cols == {"employee_id", "leave_type", "balance"}
            result == InsertReturning(tables, seq, "leave_balances", cols, Pick(body, cols))
        IN  Handle(Request("POST", "/leave_balances", 0, body), result,
                   Response(201, FirstRowBody(result.rows)))

UpdateLeaveBalance ==
    /\ Idle
    /\ \E id \in Ids, body \in LeaveBalanceUpdateBodies :
           LET cols == {"leave_type", "balance"}
               result == UpdateWhereId(tables, seq, "leave_balances", cols, Pick(body, cols), id)
           IN  Handle(Request("PUT", "/leave_balances/:id", id, body), result,
                      UpdatedOrNotFound(result, "Leave balance not found"))

DeleteLeaveBalance ==
    /\ Idle
    /\ \E id \in Ids :
           LET result == DeleteWhereId(tables, seq, "leave_balances", id)
           IN  Handle(Request("DELETE", "/leave_balances/:id", id, NoBody), result,
                      DeletedOrNotFound(result, "Leave balance not found",
                                        "Leave balance deleted successfully"))

-----------------------------------------------------------------------------
(* Attendance logs.                                                        *)

AttendanceLogBodies ==
    {[employee_id |-> NULL, date |-> Some(1), check_in |-> Some("09:00"),
      check_out |-> Some("17:00")],
     [employee_id |-> Some(1), date |-> Some(1), check_in |-> Some("09:00"),
      check_out |-> NULL, status |-> Some("Present")]}

\* The body carries no check_in, and an employee_id the handler does not read.
AttendanceLogUpdateBodies ==
    {[check_out |-> Some("18:00"), employee_id |-> Some(2)]}

ListAttendanceLogs ==
    /\ Idle
    /\ LET result == SelectAll(tables, seq, "attendance_logs")
       IN  Handle(Request("GET", "/attendance_logs", 0, NoBody), result,
                  Response(200, RowsBody(result.rows)))

GetAttendanceLog ==
    /\ Idle
    /\ \E id \in Ids :
           LET result == SelectWhereId(tables, seq, "attendance_logs", id)
           IN  Handle(Request("GET", "/attendance_logs/:id", id, NoBody), result,
                      RowOrNotFound(result, "Attendance log not found"))

CreateAttendanceLog ==
    /\ Idle
    /\ InsertBudget
    /\ \E body \in AttendanceLogBodies :
        LET cols == {"employee_id", "date", "check_in", "check_out"}
            result == InsertReturning(tables, seq, "attendance_logs", cols, Pick(body, cols))
        IN  Handle(Request("POST", "/attendance_logs", 0, body), result,
                   Response(201, FirstRowBody(result.rows)))

UpdateAttendanceLog ==
    /\ Idle
    /\ \E id \in Ids, body \in AttendanceLogUpdateBodies :
           LET cols == {"check_in", "check_out"}
               result == UpdateWhereId(tables, seq, "attendance_logs", cols, Pick(body, cols), id)
           IN  Handle(Request("PUT", "/attendance_logs/:id", id, body), result,
                      UpdatedOrNotFound(result, "Attendance log not found"))

DeleteAttendanceLog ==
    /\ Idle
    /\ \E id \in Ids :
           LET result == DeleteWhereId(tables, seq, "attendance_logs", id)
           IN  Handle(Request("DELETE", "/attendance_logs/:id", id, NoBody), result,
                      DeletedOrNotFound(result, "Attendance log not found",
                                        "Attendance log deleted successfully"))

-----------------------------------------------------------------------------
(* Feedbacks.                                                              *)

FeedbackBodies ==
    {[from_employee |-> NULL, to_employee |-> NULL, message |-> Some("Thanks")],
     [from_employee |-> Some(1), to_employee |-> Some(1), message |-> Some("Well done")],
     [from_employee |-> Some(1), to_employee |-> Some(2), message |-> NULL]}

FeedbackUpdateBodies ==
    {[from_employee |-> NULL, to_employee |-> Some(1), message |-> Some("Thanks")],
     [from_employee |-> Some(2), to_employee |-> NULL, message |-> NULL]}

ListFeedbacks ==
    /\ Idle
    /\ LET result == SelectAll(tables, seq, "feedbacks")
       IN  Handle(Request("GET", "/feedbacks", 0, NoBody), result,
                  Response(200, RowsBody(result.rows)))

GetFeedback ==
    /\ Idle
    /\ \E id \in Ids :
           LET result == SelectWhereId(tables, seq, "feedbacks", id)
           IN  Handle(Request("GET", "/feedbacks/:id", id, NoBody), result,
                      RowOrNotFound(result, "Feedback not found"))

CreateFeedback ==
    /\ Idle
    /\ InsertBudget
    /\ \E body \in FeedbackBodies :
        LET cols == {"from_employee", "to_employee", "message"}
            result == InsertReturning(tables, seq, "feedbacks", cols, Pick(body, cols))
        IN  Handle(Request("POST", "/feedbacks", 0, body), result,
                   Response(201, FirstRowBody(result.rows)))

UpdateFeedback ==
    /\ Idle
    /\ \E id \in Ids, body \in FeedbackUpdateBodies :
           LET cols == {"from_employee", "to_employee", "message"}
               result == UpdateWhereId(tables, seq, "feedbacks", cols, Pick(body, cols), id)
           IN  Handle(Request("PUT", "/feedbacks/:id", id, body), result,
                      UpdatedOrNotFound(result, "Feedback not found"))

DeleteFeedback ==
    /\ Idle
    /\ \E id \in Ids :
           LET result == DeleteWhereId(tables, seq, "feedbacks", id)
           IN  Handle(Request("DELETE", "/feedbacks/:id", id, NoBody), result,
                      DeletedOrNotFound(result, "Feedback not found",
                                        "Feedback deleted successfully"))

-----------------------------------------------------------------------------
(* Projects.                                                               *)

ProjectBodies ==
    {[name |-> Some("Apollo"), client |-> Some("NASA")],
     [name |-> NULL, client |-> NULL, id |-> Some(3)]}

ListProjects ==
    /\ Idle
    /\ LET result == SelectAll(tables, seq, "projects")
       IN  Handle(Request("GET", "/projects", 0, NoBody), result,
                  Response(200, RowsBody(result.rows)))

GetProject ==
    /\ Idle
    /\ \E id \in Ids :
           LET result == SelectWhereId(tables, seq, "projects", id)
           IN  Handle(Request("GET", "/projects/:id", id, NoBody), result,
                      RowOrNotFound(result, "Project not found"))

\* POST /projects with the two parameters bound in the wrong order.
CreateProject_SwappedParams ==
    /\ Idle
    /\ InsertBudget
    /\ \E body \in ProjectBodies :
        LET cols == {"name", "client"}
            vals == [name |-> Field(body, "client"), client |-> Field(body, "name")]
            result == InsertReturning(tables, seq, "projects", cols, vals)
        IN  Handle(Request("POST", "/projects", 0, body), result,
                   Response(201, FirstRowBody(result.rows)))

CreateProject ==
    /\ Idle
    /\ InsertBudget
    /\ \E body \in ProjectBodies :
        LET cols == {"name", "client"}
            result == InsertReturning(tables, seq, "projects", cols, Pick(body, cols))
        IN  Handle(Request("POST", "/projects", 0, body), result,
                   Response(201, FirstRowBody(result.rows)))

UpdateProject ==
    /\ Idle
    /\ \E id \in Ids, body \in ProjectBodies :
           LET cols == {"name", "client"}
               result == UpdateWhereId(tables, seq, "projects", cols, Pick(body, cols), id)
           IN  Handle(Request("PUT", "/projects/:id", id, body), result,
                      UpdatedOrNotFound(result, "Project not found"))

DeleteProject ==
    /\ Idle
    /\ \E id \in Ids :
           LET result == DeleteWhereId(tables, seq, "projects", id)
           IN  Handle(Request("DELETE", "/projects/:id", id, NoBody), result,
                      DeletedOrNotFound(result, "Project not found",
                                        "Project deleted successfully"))

-----------------------------------------------------------------------------
(* Timesheets.                                                             *)

TimesheetBodies ==
    {[employee_id |-> Some(1), project_id |-> NULL, log_date |-> Some(1), hours |-> Some(8),
      notes |-> NULL],
     [employee_id |-> NULL, project_id |-> Some(1), log_date |-> Some(7), hours |-> Some(4),
      notes |-> Some("review")],
     [employee_id |-> Some(1), project_id |-> NULL, log_date |-> Some(8), hours |-> NULL,
      notes |-> NULL]}

TimesheetUpdateBodies ==
    {[employee_id |-> Some(1), project_id |-> Some(1), log_date |-> Some(7),
      hours |-> Some(4), notes |-> Some("review")],
     [employee_id |-> NULL, project_id |-> Some(2), log_date |-> NULL, hours |-> NULL,
      notes |-> NULL]}

TimesheetColumns == {"employee_id", "project_id", "log_date", "hours", "notes"}

ListTimesheets ==
    /\ Idle
    /\ LET result == SelectAll(tables, seq, "timesheets")
       IN  Handle(Request("GET", "/timesheets", 0, NoBody), result,
                  Response(200, RowsBody(result.rows)))

GetTimesheet ==
    /\ Idle
    /\ \E id \in Ids :
           LET result == SelectWhereId(tables, seq, "timesheets", id)
           IN  Handle(Request("GET", "/timesheets/:id", id, NoBody), result,
                      RowOrNotFound(result, "Timesheet not found"))

CreateTimesheet ==
    /\ Idle
    /\ InsertBudget
    /\ \E body \in TimesheetBodies :
        LET result == InsertReturning(tables, seq, "timesheets", TimesheetColumns,
                                      Pick(body, TimesheetColumns))
        IN  Handle(Request("POST", "/timesheets", 0, body), result,
                   Response(201, FirstRowBody(result.rows)))

UpdateTimesheet ==
    /\ Idle
    /\ \E id \in Ids, body \in TimesheetUpdateBodies :
           LET result == UpdateWhereId(tables, seq, "timesheets", TimesheetColumns,
                                       Pick(body, TimesheetColumns), id)
           IN  Handle(Request("PUT", "/timesheets/:id", id, body), result,
                      UpdatedOrNotFound(result, "Timesheet not found"))

DeleteTimesheet ==
    /\ Idle
    /\ \E id \in Ids :
           LET result == DeleteWhereId(tables, seq, "timesheets", id)
           IN  Handle(Request("DELETE", "/timesheets/:id", id, NoBody), result,
                      DeletedOrNotFound(result, "Timesheet not found",
                                        "Timesheet deleted successfully"))

-----------------------------------------------------------------------------
(* The leave workflow: plain statements, no RETURNING, no rowCount check.  *)

\* DELETE /leave/cancel/:leaveId with the rowCount check of DELETE /leaves/:id.
CancelLeave_Checked ==
    /\ Idle
    /\ \E id \in Ids :
           LET result == DeleteWhereId(tables, seq, "leaves", id)
           IN  Handle(Request("DELETE", "/leave/cancel/:leaveId", id, NoBody), result,
                      IF result.rowCount = 0 THEN Response(404, ErrorBody("Leave not found"))
                      ELSE SendStatus(200))

\* DELETE /leave/cancel/:leaveId as a status change: the row stays, "Cancelled".
CancelLeave_SetsCancelled ==
    /\ Idle
    /\ \E id \in Ids :
           LET result == UpdateWhereId(tables, seq, "leaves", {"status"},
                                       [c \in {"status"} |-> Some("Cancelled")], id)
           IN  Handle(Request("DELETE", "/leave/cancel/:leaveId", id, NoBody), result,
                      SendStatus(200))

CancelLeave ==
    /\ Idle
    /\ \E id \in Ids :
           LET result == DeleteWhereId(tables, seq, "leaves", id)
           IN  Handle(Request("DELETE", "/leave/cancel/:leaveId", id, NoBody), result,
                      SendStatus(200))

\* PUT /leave/approve/:leaveId with the statement of the reject handler.
ApproveLeave_Rejects ==
    /\ Idle
    /\ \E id \in Ids :
           LET result == UpdateWhereId(tables, seq, "leaves", {"status"},
                                       [c \in {"status"} |-> Some("Rejected")], id)
           IN  Handle(Request("PUT", "/leave/approve/:leaveId", id, NoBody), result,
                      SendStatus(200))

\* PUT /leave/approve/:leaveId guarded by the current status: only a pending
\* leave is approved.
ApproveLeave_OnlyPending ==
    /\ Idle
    /\ \E id \in Ids :
           LET pending == id \in DOMAIN tables["leaves"]
                              /\ tables["leaves"][id]["status"] = Some("Pending")
               result == IF pending
                         THEN UpdateWhereId(tables, seq, "leaves", {"status"},
                                            [c \in {"status"} |-> Some("Approved")], id)
                         ELSE SelectWhereId(tables, seq, "leaves", 0)
           IN  Handle(Request("PUT", "/leave/approve/:leaveId", id, NoBody), result,
                      SendStatus(200))

ApproveLeave ==
    /\ Idle
    /\ \E id \in Ids :
           LET result == UpdateWhereId(tables, seq, "leaves", {"status"},
                                       [c \in {"status"} |-> Some("Approved")], id)
           IN  Handle(Request("PUT", "/leave/approve/:leaveId", id, NoBody), result,
                      SendStatus(200))

RejectLeave ==
    /\ Idle
    /\ \E id \in Ids :
           LET result == UpdateWhereId(tables, seq, "leaves", {"status"},
                                       [c \in {"status"} |-> Some("Rejected")], id)
           IN  Handle(Request("PUT", "/leave/reject/:leaveId", id, NoBody), result,
                      SendStatus(200))

-----------------------------------------------------------------------------
(* The relationship reads: one SELECT filtered by a foreign key or a date. *)

\* Date parameters of the requests: absent, two dates, and a text that is no date.
DateParams == {NULL, Some("2024-01-01"), Some("2024-01-02"), Some("yesterday")}

\* ?start=&end= of GET /employees/:id/attendance.
AttendanceRanges ==
    {[start |-> Some("2024-01-01"), end |-> Some("2024-01-02")],
     [start |-> Some("2024-01-02"), end |-> Some("2024-01-02")],
     [start |-> Some("2024-01-01"), end |-> NULL],
     [start |-> Some("yesterday"), end |-> Some("2024-01-02")]}

\* The days of the week after its first: interval '6 day'.
WeekSpan == 6

\* The date parameters named `names` all convert (an absent one is NULL).
DatesConvert(query, names) ==
    \A n \in names : query[n] = NULL \/ \E text \in query[n] : ParseDate(text).ok

\* The day a converted date parameter names, as a column value.
DayOf(param) == {ParseDate(text).day : text \in param}

\* SELECT * FROM employees WHERE department_id = $1
EmployeesByDepartment ==
    /\ Idle
    /\ \E id \in Ids :
           LET Match(row) == row["department_id"] = Some(id)
               result == SelectWhere(tables, seq, "employees",
                                        {k \in Keys("employees") : Match(tables["employees"][k])})
           IN  Handle(QueryRequest("/departments/:id/employees", id, NoBody), result,
                      Response(200, RowsBody(result.rows)))

\* SELECT * FROM leave_balances WHERE employee_id = $1
LeaveBalancesByEmployee ==
    /\ Idle
    /\ \E id \in Ids :
           LET Match(row) == row["employee_id"] = Some(id)
               result == SelectWhere(tables, seq, "leave_balances",
                                        {k \in Keys("leave_balances") : Match(tables["leave_balances"][k])})
           IN  Handle(QueryRequest("/employees/:id/leave-balances", id, NoBody), result,
                      Response(200, RowsBody(result.rows)))

\* SELECT * FROM attendance_logs WHERE employee_id = $1 AND date BETWEEN $2 AND $3
\* No try/catch: a start or end that is no date is a rejection nobody handles.
AttendanceByEmployee ==
    /\ Idle
    /\ \E id \in Ids, query \in AttendanceRanges :
           LET Match(row) ==
                   /\ row["employee_id"] = Some(id)
                   /\ \E lo \in DayOf(query.start), hi \in DayOf(query.end) :
                          Between(row["date"], lo, hi)
               result == IF DatesConvert(query, {"start", "end"})
                         THEN SelectWhere(tables, seq, "attendance_logs",
                                        {k \in Keys("attendance_logs") : Match(tables["attendance_logs"][k])})
                         ELSE FailureWith(tables, seq, InvalidDateMessage)
           IN  Handle(QueryRequest("/employees/:id/attendance", id, query), result,
                      Response(200, RowsBody(result.rows)))

\* SELECT * FROM leaves WHERE employee_id = $1
LeavesByEmployee ==
    /\ Idle
    /\ \E id \in Ids :
           LET Match(row) == row["employee_id"] = Some(id)
               result == SelectWhere(tables, seq, "leaves",
                                        {k \in Keys("leaves") : Match(tables["leaves"][k])})
           IN  Handle(QueryRequest("/employees/:id/leaves", id, NoBody), result,
                      Response(200, RowsBody(result.rows)))

\* SELECT * FROM feedbacks WHERE from_employee = $1 alone: the feedback given.
FeedbacksByEmployee_GivenOnly ==
    /\ Idle
    /\ \E id \in Ids :
           LET Match(row) == row["from_employee"] = Some(id)
               result == SelectWhere(tables, seq, "feedbacks",
                                        {k \in Keys("feedbacks") : Match(tables["feedbacks"][k])})
           IN  Handle(QueryRequest("/employees/:id/feedbacks", id, NoBody), result,
                      Response(200, RowsBody(result.rows)))

\* SELECT * FROM feedbacks WHERE from_employee = $1 OR to_employee = $1
FeedbacksByEmployee ==
    /\ Idle
    /\ \E id \in Ids :
           LET Match(row) == row["from_employee"] = Some(id) \/ row["to_employee"] = Some(id)
               result == SelectWhere(tables, seq, "feedbacks",
                                        {k \in Keys("feedbacks") : Match(tables["feedbacks"][k])})
           IN  Handle(QueryRequest("/employees/:id/feedbacks", id, NoBody), result,
                      Response(200, RowsBody(result.rows)))

\* SELECT * FROM timesheets WHERE employee_id = $1
TimesheetsByEmployee ==
    /\ Idle
    /\ \E id \in Ids :
           LET Match(row) == row["employee_id"] = Some(id)
               result == SelectWhere(tables, seq, "timesheets",
                                        {k \in Keys("timesheets") : Match(tables["timesheets"][k])})
           IN  Handle(QueryRequest("/employees/:id/timesheets", id, NoBody), result,
                      Response(200, RowsBody(result.rows)))

\* x NOT IN (values): true when x equals none of the values and none of them is
\* NULL; with a NULL among them the comparison is never true.
NotIn(x, values) == NULL \notin values /\ Some(x) \notin values

\* SELECT * FROM employees WHERE id NOT IN
\*     (SELECT employee_id FROM attendance_logs WHERE date = $1)
MissingAttendance ==
    /\ Idle
    /\ \E date \in DateParams \ {NULL} :
           LET query == [date |-> date]
               present == {tables["attendance_logs"][k]["employee_id"] :
                              k \in {j \in DOMAIN tables["attendance_logs"] :
                                        /\ tables["attendance_logs"][j]["date"] # NULL
                                        /\ tables["attendance_logs"][j]["date"] = DayOf(date)}}
               Match(row) == \E id \in row["id"] : NotIn(id, present)
               result == IF DatesConvert(query, {"date"})
                         THEN SelectWhere(tables, seq, "employees",
                                        {k \in Keys("employees") : Match(tables["employees"][k])})
                         ELSE FailureWith(tables, seq, InvalidDateMessage)
           IN  Handle(QueryRequest("/attendance/missing/:date", 0, query), result,
                      Response(200, RowsBody(result.rows)))

\* GET /leave/requests/:employeeId with the rows.length check of GET /leaves/:id.
LeaveRequests_NotFound ==
    /\ Idle
    /\ \E id \in Ids :
           LET Match(row) == row["employee_id"] = Some(id)
               result == SelectWhere(tables, seq, "leaves",
                                        {k \in Keys("leaves") : Match(tables["leaves"][k])})
           IN  Handle(QueryRequest("/leave/requests/:employeeId", id, NoBody), result,
                      IF Cardinality(result.rows) = 0
                      THEN Response(404, ErrorBody("Leave not found"))
                      ELSE Response(200, RowsBody(result.rows)))

\* SELECT * FROM leaves WHERE employee_id = $1
LeaveRequests ==
    /\ Idle
    /\ \E id \in Ids :
           LET Match(row) == row["employee_id"] = Some(id)
               result == SelectWhere(tables, seq, "leaves",
                                        {k \in Keys("leaves") : Match(tables["leaves"][k])})
           IN  Handle(QueryRequest("/leave/requests/:employeeId", id, NoBody), result,
                      Response(200, RowsBody(result.rows)))

\* GET /timesheets/week/:employeeId with a week that ends before its seventh day.
TimesheetsWeek_ShortWeek ==
    /\ Idle
    /\ \E id \in Ids, start \in DateParams :
           LET query == [start |-> start]
               Match(row) ==
                   /\ row["employee_id"] = Some(id)
                   /\ \E d \in DayOf(start) : Between(row["log_date"], d, d + WeekSpan - 1)
               result == IF DatesConvert(query, {"start"})
                         THEN SelectWhere(tables, seq, "timesheets",
                                        {k \in Keys("timesheets") : Match(tables["timesheets"][k])})
                         ELSE FailureWith(tables, seq, InvalidDateMessage)
           IN  HandleCaught(QueryRequest("/timesheets/week/:employeeId", id, query), result,
                            Response(200, RowsBody(result.rows)))

\* SELECT * FROM timesheets WHERE employee_id = $1
\*     AND log_date BETWEEN $2::date AND ($2::date + interval '6 day')
TimesheetsWeek ==
    /\ Idle
    /\ \E id \in Ids, start \in DateParams :
           LET query == [start |-> start]
               Match(row) ==
                   /\ row["employee_id"] = Some(id)
                   /\ \E d \in DayOf(start) : Between(row["log_date"], d, d + WeekSpan)
               result == IF DatesConvert(query, {"start"})
                         THEN SelectWhere(tables, seq, "timesheets",
                                        {k \in Keys("timesheets") : Match(tables["timesheets"][k])})
                         ELSE FailureWith(tables, seq, InvalidDateMessage)
           IN  HandleCaught(QueryRequest("/timesheets/week/:employeeId", id, query), result,
                            Response(200, RowsBody(result.rows)))

\* SELECT * FROM timesheets WHERE employee_id = $1 AND log_date = $2
TimesheetsDay ==
    /\ Idle
    /\ \E id \in Ids, date \in DateParams :
           LET query == [date |-> date]
               Match(row) ==
                   /\ row["employee_id"] = Some(id)
                   /\ date # NULL
                   /\ row["log_date"] = DayOf(date)
               result == IF DatesConvert(query, {"date"})
                         THEN SelectWhere(tables, seq, "timesheets",
                                        {k \in Keys("timesheets") : Match(tables["timesheets"][k])})
                         ELSE FailureWith(tables, seq, InvalidDateMessage)
           IN  HandleCaught(QueryRequest("/timesheets/day/:employeeId", id, query), result,
                            Response(200, RowsBody(result.rows)))

\* SELECT p.* FROM projects p JOIN project_assignments pa ON pa.project_id = p.id
\*     WHERE pa.employee_id = $1
\* setupTables creates no project_assignments: the store rejects the statement.
UndefinedTableMessage == "relation \"project_assignments\" does not exist"
AssignedProjects ==
    /\ Idle
    /\ \E id \in Ids :
           LET pa == "project_assignments"
               Match(row) == \E k \in DOMAIN tables[pa] :
                                 /\ tables[pa][k]["project_id"] = row["id"]
                                 /\ tables[pa][k]["employee_id"] = Some(id)
               result == IF pa \in TableNames
                         THEN SelectWhere(tables, seq, "projects",
                                        {k \in Keys("projects") : Match(tables["projects"][k])})
                         ELSE FailureWith(tables, seq, UndefinedTableMessage)
           IN  HandleCaught(QueryRequest("/projects/assigned/:employeeId", id, NoBody), result,
                            Response(200, RowsBody(result.rows)))

-----------------------------------------------------------------------------
(* The server after setupTables, on an empty database, and its requests.   *)

Init ==
    /\ tables = [t \in TableNames |-> [k \in {} |-> NULL]]
    /\ seq = [t \in TableNames |-> 1]
    /\ pre = tables
    /\ preSeq = seq
    /\ req = NoRequest
    /\ resp = NoResponse
    /\ flight = [s \in Slots |-> NoFlight]
    /\ executed = <<>>
    /\ dispatched = NoDispatch

\* The request is over (its response went out, or none ever will): no handler
\* keeps anything of it, and the server takes the next request.
Complete ==
    /\ req # NoRequest
    /\ req' = NoRequest
    /\ resp' = NoResponse
    /\ pre' = tables
    /\ preSeq' = seq
    /\ UNCHANGED <<tables, seq, flight, executed, dispatched>>

\* One request at a time: the routes registered on app, and the end of a request.
Next ==
    \/ ListDepartments \/ GetDepartment \/ CreateDepartment \/ UpdateDepartment
    \/ DeleteDepartment
    \/ ListEmployees \/ GetEmployee \/ CreateEmployee \/ UpdateEmployee \/ DeleteEmployee
    \/ ListLeavePolicies \/ GetLeavePolicy \/ CreateLeavePolicy \/ UpdateLeavePolicy
    \/ DeleteLeavePolicy
    \/ ListLeaves \/ GetLeave \/ CreateLeave \/ UpdateLeave \/ DeleteLeave
    \/ ListLeaveBalances \/ GetLeaveBalance \/ CreateLeaveBalance \/ UpdateLeaveBalance
    \/ DeleteLeaveBalance
    \/ ListAttendanceLogs \/ GetAttendanceLog \/ CreateAttendanceLog \/ UpdateAttendanceLog
    \/ DeleteAttendanceLog
    \/ ListFeedbacks \/ GetFeedback \/ CreateFeedback \/ UpdateFeedback \/ DeleteFeedback
    \/ ListProjects \/ GetProject \/ CreateProject \/ UpdateProject \/ DeleteProject
    \/ ListTimesheets \/ GetTimesheet \/ CreateTimesheet \/ UpdateTimesheet \/ DeleteTimesheet
    \/ CancelLeave \/ ApproveLeave \/ RejectLeave
    \/ EmployeesByDepartment
    \/ Complete

Spec == Init /\ [][Next]_vars

\* The reads of the server over the stores that Create requests build: the
\* List and Get-by-id routes and the relationship reads.
ReadNext ==
    \/ CreateDepartment \/ CreateEmployee \/ UpdateEmployee \/ CreateLeave
    \/ CreateLeaveBalance \/ CreateAttendanceLog \/ CreateFeedback \/ UpdateFeedback
    \/ CreateProject \/ CreateTimesheet
    \/ ListDepartments \/ GetDepartment \/ ListEmployees \/ GetEmployee
    \/ ListLeavePolicies \/ GetLeavePolicy \/ ListLeaves \/ GetLeave
    \/ ListLeaveBalances \/ GetLeaveBalance \/ ListAttendanceLogs \/ GetAttendanceLog
    \/ ListFeedbacks \/ GetFeedback \/ ListProjects \/ GetProject
    \/ ListTimesheets \/ GetTimesheet
    \/ EmployeesByDepartment \/ LeaveBalancesByEmployee \/ AttendanceByEmployee
    \/ LeavesByEmployee \/ FeedbacksByEmployee \/ TimesheetsByEmployee
    \/ MissingAttendance \/ LeaveRequests
    \/ TimesheetsWeek \/ TimesheetsDay \/ AssignedProjects
    \/ Complete

ReadSpec == Init /\ [][ReadNext]_vars

\* Every route: the CRUD and leave-workflow handlers and all relationship reads.
ServerNext ==
    \/ ListDepartments \/ GetDepartment \/ CreateDepartment \/ UpdateDepartment
    \/ DeleteDepartment
    \/ ListEmployees \/ GetEmployee \/ CreateEmployee \/ UpdateEmployee \/ DeleteEmployee
    \/ ListLeavePolicies \/ GetLeavePolicy \/ CreateLeavePolicy \/ UpdateLeavePolicy
    \/ DeleteLeavePolicy
    \/ ListLeaves \/ GetLeave \/ CreateLeave \/ UpdateLeave \/ DeleteLeave
    \/ ListLeaveBalances \/ GetLeaveBalance \/ CreateLeaveBalance \/ UpdateLeaveBalance
    \/ DeleteLeaveBalance
    \/ ListAttendanceLogs \/ GetAttendanceLog \/ CreateAttendanceLog \/ UpdateAttendanceLog
    \/ DeleteAttendanceLog
    \/ ListFeedbacks \/ GetFeedback \/ CreateFeedback \/ UpdateFeedback \/ DeleteFeedback
    \/ ListProjects \/ GetProject \/ CreateProject \/ UpdateProject \/ DeleteProject
    \/ ListTimesheets \/ GetTimesheet \/ CreateTimesheet \/ UpdateTimesheet \/ DeleteTimesheet
    \/ CancelLeave \/ ApproveLeave \/ RejectLeave
    \/ EmployeesByDepartment \/ LeaveBalancesByEmployee \/ AttendanceByEmployee
    \/ LeavesByEmployee \/ FeedbacksByEmployee \/ TimesheetsByEmployee
    \/ MissingAttendance \/ LeaveRequests
    \/ TimesheetsWeek \/ TimesheetsDay \/ AssignedProjects
    \/ Complete

ServerSpec == Init /\ [][ServerNext]_vars

-----------------------------------------------------------------------------
(* The vocabulary of the properties.                                       *)

\* The nine resource groups, named by their tables.
Groups == TableNames
NonEmployeeGroups == Groups \ {"employees"}

\* The route templates of a group's item and collection endpoints.
ItemRoute(t) ==
    CASE t = "departments"     -> "/departments/:id"
      [] t = "employees"       -> "/employees/:id"
      [] t = "leave_policies"  -> "/leave_policies/:id"
      [] t = "leaves"          -> "/leaves/:id"
      [] t = "leave_balances"  -> "/leave_balances/:id"
      [] t = "attendance_logs" -> "/attendance_logs/:id"
      [] t = "feedbacks"       -> "/feedbacks/:id"
      [] t = "projects"        -> "/projects/:id"
      [] t = "timesheets"      -> "/timesheets/:id"

CollectionRoute(t) ==
    CASE t = "departments"     -> "/departments"
      [] t = "employees"       -> "/employees"
      [] t = "leave_policies"  -> "/leave_policies"
      [] t = "leaves"          -> "/leaves"
      [] t = "leave_balances"  -> "/leave_balances"
      [] t = "attendance_logs" -> "/attendance_logs"
      [] t = "feedbacks"       -> "/feedbacks"
      [] t = "projects"        -> "/projects"
      [] t = "timesheets"      -> "/timesheets"

\* The fields POST /T takes from the body.
CreateFields(t) ==
    CASE t = "departments"     -> {"name"}
      [] t = "employees"       -> {"name", "email", "phone", "doj"}
      [] t = "leave_policies"  -> {"policy_name", "description", "max_leaves"}
      [] t = "leaves"          -> {"employee_id", "type", "start_date", "end_date", "status"}
      [] t = "leave_balances"  -> {"employee_id", "leave_type", "balance"}
      [] t = "attendance_logs" -> {"employee_id", "date", "check_in", "check_out"}
      [] t = "feedbacks"       -> {"from_employee", "to_employee", "message"}
      [] t = "projects"        -> {"name", "client"}
      [] t = "timesheets"      -> {"employee_id", "project_id", "log_date", "hours", "notes"}

\* The fields PUT /T/:id takes from the body.
UpdateFields(t) ==
    CASE t = "departments"     -> {"name"}
      [] t = "employees"       -> {"name", "phone"}
      [] t = "leave_policies"  -> {"policy_name", "description", "max_leaves"}
      [] t = "leaves"          -> {"type", "start_date", "end_date", "status"}
      [] t = "leave_balances"  -> {"leave_type", "balance"}
      [] t = "attendance_logs" -> {"check_in", "check_out"}
      [] t = "feedbacks"       -> {"from_employee", "to_employee", "message"}
      [] t = "projects"        -> {"name", "client"}
      [] t = "timesheets"      -> {"employee_id", "project_id", "log_date", "hours", "notes"}

\* "<Entity> not found" and "<Entity> deleted successfully" of the CRUD contract.
NotFoundMessage(t) ==
    CASE t = "departments"     -> "Department not found"
      [] t = "employees"       -> "Employee not found"
      [] t = "leave_policies"  -> "Leave policy not found"
      [] t = "leaves"          -> "Leave not found"
      [] t = "leave_balances"  -> "Leave balance not found"
      [] t = "attendance_logs" -> "Attendance log not found"
      [] t = "feedbacks"       -> "Feedback not found"
      [] t = "projects"        -> "Project not found"
      [] t = "timesheets"      -> "Timesheet not found"

DeletedMessage(t) ==
    CASE t = "departments"     -> "Department deleted successfully"
      [] t = "employees"       -> "Employee deleted successfully"
      [] t = "leave_policies"  -> "Leave policy deleted successfully"
      [] t = "leaves"          -> "Leave deleted successfully"
      [] t = "leave_balances"  -> "Leave balance deleted successfully"
      [] t = "attendance_logs" -> "Attendance log deleted successfully"
      [] t = "feedbacks"       -> "Feedback deleted successfully"
      [] t = "projects"        -> "Project deleted successfully"
      [] t = "timesheets"      -> "Timesheet deleted successfully"

\* The request just handled is `method` on `route`.
Handled(method, route) == req.method = method /\ req.route = route

\* The columns of t the store fills in by itself on INSERT.
StoreAssigned(t) == {c \in Columns(t) : c = "id" \/ ColumnDefault(t, c) # NULL}

-----------------------------------------------------------------------------
(* C1: in every step, for every resource group T, a GET /T/:id on an id    *)
(* that has no row (never created, or created and deleted) is answered 404 *)
(* with {error: "<Entity> not found"}, and an id that the sequence has     *)
(* already handed out and that has no row now has no row afterwards.       *)
C1_GetMissingIs404 ==
    [][ /\ \A t \in Groups :
             (req'.method = "GET" /\ req'.route = ItemRoute(t) /\ req'.id \notin DOMAIN tables'[t])
                 => resp' = Response(404, ErrorBody(NotFoundMessage(t)))
        /\ \A t \in Groups, id \in Ids :
             (id < seq[t] /\ id \notin DOMAIN tables[t]) => id \notin DOMAIN tables'[t]
      ]_vars

\* A project was created and deleted (an INSERT into projects never fails), and
\* the GET of its id is answered 404.
C1_Witness ==
    /\ Handled("GET", ItemRoute("projects"))
    /\ req.id < seq["projects"]
    /\ req.id \notin DOMAIN tables["projects"]
    /\ resp = Response(404, ErrorBody("Project not found"))

-----------------------------------------------------------------------------
\* The row a 201 or 200 response carries.
ResponseRow == resp.body.row

\* A 201 Create returns the row it stored, its store-assigned columns filled in.
CreatedRowIsStored(t) ==
    (Handled("POST", CollectionRoute(t)) /\ resp.sent /\ resp.status = 201) =>
        /\ resp.body.kind = "row"
        /\ \E k \in DOMAIN tables[t] : ResponseRow["id"] = Some(k) /\ tables[t][k] = ResponseRow
        /\ \A c \in StoreAssigned(t) : ResponseRow[c] # NULL

\* GET /T/:id on a stored id returns 200 with the stored row.
GetReturnsStoredRow(t) ==
    (Handled("GET", ItemRoute(t)) /\ req.id \in DOMAIN tables[t]) =>
        resp = Response(200, [kind |-> "row", row |-> tables[t][req.id]])

C3_UpdateMissingIs404 ==
    \A t \in NonEmployeeGroups :
        (Handled("PUT", ItemRoute(t)) /\ req.id \notin DOMAIN pre[t]) =>
            /\ resp = Response(404, ErrorBody(NotFoundMessage(t)))
            /\ tables = pre

(* C4 as claimed: for every group T, DELETE /T/:id on an id whose row      *)
(* exists removes the row, also when other rows reference it.              *)
C4_Original ==
    \A t \in Groups :
        (Handled("DELETE", ItemRoute(t)) /\ req.id \in DOMAIN pre[t]) =>
            req.id \notin DOMAIN tables[t]

(* C4 amended: DELETE /T/:id on an existing row that no other row          *)
(* references removes that row and no other, so that GET /T/:id on it is   *)
(* answered 404; when another row references it the store rejects the      *)
(* DELETE, every table stays as it was and no response is sent.            *)
C4_DeleteRemovesUnreferenced ==
    \A t \in Groups :
        /\ (Handled("DELETE", ItemRoute(t)) /\ req.id \in DOMAIN pre[t]) =>
               IF IsReferenced(pre, t, req.id)
               THEN tables = pre /\ resp = NoResponse
               ELSE /\ DOMAIN tables[t] = DOMAIN pre[t] \ {req.id}
                    /\ \A k \in DOMAIN tables[t] : tables[t][k] = pre[t][k]
                    /\ \A u \in Groups \ {t} : tables[u] = pre[u]
                    /\ resp.sent
        /\ (Handled("GET", ItemRoute(t)) /\ req.id \notin DOMAIN tables[t]) =>
               resp.sent /\ resp.status = 404

\* An employee that nothing references is deleted while another employee stays.
C4_Witness ==
    /\ Handled("DELETE", "/employees/:id")
    /\ req.id \in DOMAIN pre["employees"]
    /\ req.id \notin DOMAIN tables["employees"]
    /\ tables["employees"] # [k \in {} |-> NULL]
    /\ resp.sent

(* C5: for each of the eight groups other than Employee, a DELETE /T/:id   *)
(* that succeeds is answered 200 with {message: "<Entity> deleted          *)
(* successfully"}.                                                         *)
C5_DeleteMessage ==
    \A t \in NonEmployeeGroups :
        (Handled("DELETE", ItemRoute(t)) /\ resp.sent /\ resp.status # 404) =>
            resp = Response(200, MessageBody(DeletedMessage(t)))

(* C6: for every group T other than Employee, DELETE /T/:id on an id that  *)
(* has no row is answered 404 with {error: "<Entity> not found"} and       *)
(* leaves every table as it was; and after a DELETE answered 200 the id    *)
(* has no row, so that the same DELETE again is answered 404.              *)
C6_DeleteMissingIs404 ==
    \A t \in NonEmployeeGroups :
        /\ (Handled("DELETE", ItemRoute(t)) /\ req.id \notin DOMAIN pre[t]) =>
               /\ resp = Response(404, ErrorBody(NotFoundMessage(t)))
               /\ tables = pre
        /\ (Handled("DELETE", ItemRoute(t)) /\ resp.sent /\ resp.status = 200) =>
               req.id \in DOMAIN pre[t] /\ req.id \notin DOMAIN tables[t]

\* The second DELETE of a project: its id was handed out (an INSERT into
\* projects never fails, so the row existed), the row is gone, 404.
C6_Witness ==
    /\ Handled("DELETE", "/projects/:id")
    /\ req.id < seq["projects"]
    /\ req.id \notin DOMAIN pre["projects"]
    /\ resp = Response(404, ErrorBody("Project not found"))
    /\ tables = pre

(* C7: PUT /employees/:id on an id that has no row is answered 200 with an *)
(* empty body, not 404, and leaves the employees table as it was.          *)
C7_EmployeeUpdateMissing ==
    (Handled("PUT", "/employees/:id") /\ req.id \notin DOMAIN pre["employees"]) =>
        /\ resp = Response(200, EmptyBody)
        /\ tables = pre

\* An employee exists, and the PUT names another id.
C7_Witness ==
    /\ Handled("PUT", "/employees/:id")
    /\ req.id \notin DOMAIN pre["employees"]
    /\ DOMAIN pre["employees"] # {}
    /\ resp = Response(200, EmptyBody)

(* C8 as claimed: DELETE /employees/:id is answered 204 with an empty body *)
(* whether or not a row with that id exists, never 404, and when no row    *)
(* exists the store is unchanged.                                          *)
C8_Original ==
    Handled("DELETE", "/employees/:id") =>
        /\ resp = Response(204, EmptyBody)
        /\ req.id \notin DOMAIN pre["employees"] => tables = pre

(* C8 amended: DELETE /employees/:id is answered 204 with an empty body    *)
(* whether or not a row with that id exists, unless another row references *)
(* the employee: then the store rejects the DELETE, no response is sent    *)
(* and every table stays as it was.  It is never answered 404, and when no *)
(* row exists the store is unchanged.                                      *)
C8_EmployeeDelete ==
    Handled("DELETE", "/employees/:id") =>
        /\ IF req.id \in DOMAIN pre["employees"] /\ IsReferenced(pre, "employees", req.id)
           THEN resp = NoResponse /\ tables = pre
           ELSE resp = Response(204, EmptyBody)
        /\ resp.status # 404
        /\ req.id \notin DOMAIN pre["employees"] => tables = pre

\* DELETE /employees/:id on an id without a row, while an employee exists: 204.
C8_Witness ==
    /\ Handled("DELETE", "/employees/:id")
    /\ req.id \notin DOMAIN pre["employees"]
    /\ DOMAIN pre["employees"] # {}
    /\ resp = Response(204, EmptyBody)

\* The store before the request, with the status of leave id set to v.
WithLeaveStatus(id, v) == [pre EXCEPT !["leaves"][id]["status"] = v]

(* C9: on a Leave row whose status is "Pending", PUT /leave/approve/:id    *)
(* makes the status "Approved" and PUT /leave/reject/:id makes it          *)
(* "Rejected"; both are answered 200, and no other field of the row and no *)
(* other row changes.                                                      *)
C9_ApproveRejectPending ==
    /\ ( /\ Handled("PUT", "/leave/approve/:leaveId")
         /\ req.id \in DOMAIN pre["leaves"]
         /\ pre["leaves"][req.id]["status"] = Some("Pending") )
       => (tables = WithLeaveStatus(req.id, Some("Approved")) /\ resp.sent /\ resp.status = 200)
    /\ ( /\ Handled("PUT", "/leave/reject/:leaveId")
         /\ req.id \in DOMAIN pre["leaves"]
         /\ pre["leaves"][req.id]["status"] = Some("Pending") )
       => (tables = WithLeaveStatus(req.id, Some("Rejected")) /\ resp.sent /\ resp.status = 200)

\* A pending leave was approved while a second leave exists.
C9_Witness ==
    /\ Handled("PUT", "/leave/approve/:leaveId")
    /\ req.id \in DOMAIN pre["leaves"]
    /\ pre["leaves"][req.id]["status"] = Some("Pending")
    /\ tables["leaves"][req.id]["status"] = Some("Approved")
    /\ Cardinality(DOMAIN tables["leaves"]) = 2

\* The three leave-workflow routes.
WorkflowRequests ==
    {<<"PUT", "/leave/approve/:leaveId">>, <<"PUT", "/leave/reject/:leaveId">>,
     <<"DELETE", "/leave/cancel/:leaveId">>}

(* C10: approve, reject and cancel on an id that has no Leave row are      *)
(* answered 200, never 404, and leave every table as it was.               *)
C10_WorkflowMissing ==
    \A w \in WorkflowRequests :
        (Handled(w[1], w[2]) /\ req.id \notin DOMAIN pre["leaves"]) =>
            /\ resp.sent /\ resp.status = 200
            /\ tables = pre

\* A leave exists, and the cancel names another id.
C10_Witness ==
    /\ Handled("DELETE", "/leave/cancel/:leaveId")
    /\ req.id \notin DOMAIN pre["leaves"]
    /\ DOMAIN pre["leaves"] # {}
    /\ resp.sent /\ resp.status = 200
    /\ tables = pre

-----------------------------------------------------------------------------
\* The rows of the store before the request, row id of table t taken out.
WithoutRow(t, id) ==
    [pre EXCEPT ![t] = [k \in DOMAIN pre[t] \ {id} |-> pre[t][k]]]

(* C11: DELETE /leave/cancel/:id removes the Leave row outright: it is     *)
(* answered 200, the row is gone while every other row is as it was (so no *)
(* row gets a "Cancelled" status), GET /leaves/:id on it is answered 404   *)
(* and neither GET /leaves nor the by-employee listings return it.         *)
C11_CancelRemovesRow ==
    Handled("DELETE", "/leave/cancel/:leaveId") =>
        /\ resp.sent /\ resp.status = 200
        /\ tables = WithoutRow("leaves", req.id)
        /\ \A k \in DOMAIN tables["leaves"] :
               tables["leaves"][k]["status"] = Some("Cancelled")
                   => pre["leaves"][k]["status"] = Some("Cancelled")
        /\ RowOrNotFound(SelectWhereId(tables, seq, "leaves", req.id), "Leave not found")
               = Response(404, ErrorBody("Leave not found"))
        /\ \A row \in SelectAll(tables, seq, "leaves").rows : row["id"] # Some(req.id)

\* A leave is cancelled while another leave stays.
C11_Witness ==
    /\ Handled("DELETE", "/leave/cancel/:leaveId")
    /\ req.id \in DOMAIN pre["leaves"]
    /\ req.id \notin DOMAIN tables["leaves"]
    /\ DOMAIN tables["leaves"] # {}

-----------------------------------------------------------------------------
\* Leave k was in the store before the request with status "Pending" and is
\* in it now with another status.
LeftPending(k) ==
    /\ k \in DOMAIN pre["leaves"] /\ k \in DOMAIN tables["leaves"]
    /\ pre["leaves"][k]["status"] = Some("Pending")
    /\ tables["leaves"][k]["status"] # Some("Pending")

(* C12 as claimed: every Leave row that POST /leaves creates has status    *)
(* "Pending", and a row leaves "Pending" only through the approve and      *)
(* reject endpoints.                                                       *)
C12_Original ==
    /\ (Handled("POST", "/leaves") /\ resp.sent /\ resp.status = 201)
           => ResponseRow["status"] = Some("Pending")
    /\ \A k \in Ids :
           LeftPending(k) =>
               /\ Handled("PUT", "/leave/approve/:leaveId") \/ Handled("PUT", "/leave/reject/:leaveId")
               /\ req.id = k

(* C12 amended: a Leave row that POST /leaves creates has status "Pending" *)
(* when the body carries no status or an empty one, and the status of the  *)
(* body otherwise; a row leaves "Pending" through approve or reject, or    *)
(* through PUT /leaves/:id, which stores the status of its body (null when *)
(* the body carries none).                                                 *)
C12_LeaveStatus ==
    /\ (Handled("POST", "/leaves") /\ resp.sent /\ resp.status = 201)
           => /\ ResponseRow["status"] = IF Falsy(Field(req.body, "status")) THEN Some("Pending")
                                         ELSE Field(req.body, "status")
              /\ \E k \in DOMAIN tables["leaves"] \ DOMAIN pre["leaves"] :
                     tables["leaves"][k] = ResponseRow
    /\ \A k \in Ids :
           LeftPending(k) =>
               /\ req.id = k
               /\ \/ Handled("PUT", "/leave/approve/:leaveId")
                     /\ tables["leaves"][k]["status"] = Some("Approved")
                  \/ Handled("PUT", "/leave/reject/:leaveId")
                     /\ tables["leaves"][k]["status"] = Some("Rejected")
                  \/ Handled("PUT", "/leaves/:id")
                     /\ tables["leaves"][k]["status"] = Field(req.body, "status")

\* A leave is created with a null status, stored "Pending", while the leave
\* created before it with status "Approved" is in the store as "Approved".
C12_Witness ==
    /\ Handled("POST", "/leaves")
    /\ resp.sent /\ resp.status = 201
    /\ req.body["status"] = NULL
    /\ ResponseRow["status"] = Some("Pending")
    /\ \E k \in DOMAIN pre["leaves"] : pre["leaves"][k]["status"] = Some("Approved")

-----------------------------------------------------------------------------
\* The request just handled is a GET on `route`.
Read(route) == Handled("GET", route)

\* The day the date parameter `name` of the request names.
RequestDay(name) == DayOf(req.query[name])

\* The employees without any attendance_logs row dated `days`.
EmployeesWithoutLog(days) ==
    {tables["employees"][e] : e \in
        {k \in DOMAIN tables["employees"] :
            ~ \E a \in DOMAIN tables["attendance_logs"] :
                  /\ tables["attendance_logs"][a]["employee_id"] = Some(k)
                  /\ tables["attendance_logs"][a]["date"] # NULL
                  /\ tables["attendance_logs"][a]["date"] = days}}

(* C13: GET /attendance/missing/:date on a date returns exactly the        *)
(* employees that have no attendance_logs row with that date, in every     *)
(* store state, those with rows of that date whose employee_id is null     *)
(* included.                                                               *)
C13_MissingAttendance ==
    (Read("/attendance/missing/:date") /\ DatesConvert(req.query, {"date"})) =>
        resp = Response(200, RowsBody(EmployeesWithoutLog(RequestDay("date"))))

-----------------------------------------------------------------------------
\* The timesheets of employee e whose log_date is one of `days`.
TimesheetsOn(e, days) ==
    {tables["timesheets"][k] : k \in
        {j \in DOMAIN tables["timesheets"] :
            /\ tables["timesheets"][j]["employee_id"] = Some(e)
            /\ \E d \in days : tables["timesheets"][j]["log_date"] = Some(d)}}

(* C14: GET /timesheets/week/e?start=d returns exactly the Timesheet rows  *)
(* with employee_id = e and d <= log_date <= d + 6 days, both ends         *)
(* included: no row of another employee, and no row dated d - 1 or d + 7.  *)
C14_WeekRange ==
    (Read("/timesheets/week/:employeeId") /\ DatesConvert(req.query, {"start"})) =>
        /\ resp.sent /\ resp.status = 200 /\ resp.body.kind = "rows"
        /\ \A d \in RequestDay("start") :
               /\ resp.body.rows = TimesheetsOn(req.id, d .. (d + WeekSpan))
               /\ \A row \in resp.body.rows :
                      /\ row["employee_id"] = Some(req.id)
                      /\ row["log_date"] \notin {Some(d - 1), Some(d + WeekSpan + 1)}
        /\ req.query["start"] = NULL => resp.body.rows = {}

\* The week of 2024-01-02 (day 2) returns the timesheet of its last day, day 8.
C14_Witness ==
    /\ Read("/timesheets/week/:employeeId")
    /\ req.query["start"] = Some("2024-01-02")
    /\ resp.sent /\ resp.status = 200
    /\ \E row \in resp.body.rows : row["log_date"] = Some(8) /\ row["employee_id"] = Some(req.id)

-----------------------------------------------------------------------------
(* C15: every employee in the store has a null department_id: POST         *)
(* /employees stores only name, email, phone and doj (department_id,       *)
(* status and id of the body are ignored: the status is the default and    *)
(* the id the sequence's), PUT /employees/:id writes only name and phone,  *)
(* and GET /departments/:id/employees returns [] for every department id.  *)
C15_DepartmentNeverSet ==
    /\ \A k \in DOMAIN tables["employees"] : tables["employees"][k]["department_id"] = NULL
    /\ Read("/departments/:id/employees") => resp = Response(200, RowsBody({}))
    /\ (Handled("POST", "/employees") /\ resp.sent) =>
           /\ resp.status = 201
           /\ ResponseRow["id"] = Some(seq["employees"] - 1)
           /\ ResponseRow["status"] = Some("Active")
           /\ \A c \in CreateFields("employees") : ResponseRow[c] = Field(req.body, c)
           /\ \A c \in Columns("employees") \ (CreateFields("employees") \cup {"id"}) :
                  ResponseRow[c] = ColumnDefault("employees", c)
    /\ (Handled("PUT", "/employees/:id") /\ resp.sent /\ req.id \in DOMAIN pre["employees"]) =>
           tables = [pre EXCEPT !["employees"][req.id]["name"] = Field(req.body, "name"),
                                !["employees"][req.id]["phone"] = Field(req.body, "phone")]

\* Department 1 exists, an employee was created from a body that names
\* department 1, and GET /departments/1/employees returns no row.
C15_Witness ==
    /\ Read("/departments/:id/employees")
    /\ req.id \in DOMAIN tables["departments"]
    /\ \E k \in DOMAIN tables["employees"] : tables["employees"][k]["name"] = Some("Bob")
    /\ resp = Response(200, RowsBody({}))

-----------------------------------------------------------------------------
(* C16: when the store query fails in GET /employees/:id/attendance, GET   *)
(* /timesheets/week/:employeeId, GET /timesheets/day/:employeeId or GET    *)
(* /projects/assigned/:employeeId, the handler answers 500 with {error:    *)
(* <the store's message>}.  The query fails when a date parameter is no    *)
(* date, and in /projects/assigned always (no project_assignments table).  *)
C16_FailureIs500 ==
    /\ (Read("/employees/:id/attendance") /\ ~DatesConvert(req.query, {"start", "end"}))
           => resp = Response(500, ErrorBody(InvalidDateMessage))
    /\ (Read("/timesheets/week/:employeeId") /\ ~DatesConvert(req.query, {"start"}))
           => resp = Response(500, ErrorBody(InvalidDateMessage))
    /\ (Read("/timesheets/day/:employeeId") /\ ~DatesConvert(req.query, {"date"}))
           => resp = Response(500, ErrorBody(InvalidDateMessage))
    /\ Read("/projects/assigned/:employeeId")
           => resp = Response(500, ErrorBody(UndefinedTableMessage))

-----------------------------------------------------------------------------
\* The routes of the relationship reads.
DerivedRoutes ==
    {"/departments/:id/employees", "/employees/:id/leave-balances",
     "/employees/:id/attendance", "/employees/:id/leaves", "/employees/:id/feedbacks",
     "/employees/:id/timesheets", "/attendance/missing/:date",
     "/leave/requests/:employeeId", "/timesheets/week/:employeeId",
     "/timesheets/day/:employeeId", "/projects/assigned/:employeeId"}

\* The query of the relationship read just handled succeeds: its date
\* parameters are dates and the tables it names exist.
QuerySucceeds ==
    /\ req.route # "/projects/assigned/:employeeId"
    /\ DatesConvert(req.query, DOMAIN req.query)

(* C17 as claimed: every relationship read and every List and Get-by-id   *)
(* endpoint leaves all tables as they were and, when its query succeeds    *)
(* (a response other than the 500 of a caught failure is sent), is         *)
(* answered 200 with a possibly empty sequence of rows, never 404.         *)
C17_Original ==
    req.method = "GET" =>
        /\ tables = pre
        /\ (resp.sent /\ resp.status # 500) => (resp.status = 200 /\ resp.body.kind = "rows")

(* C17 amended: every relationship read and every List and Get-by-id       *)
(* endpoint leaves all tables as they were.  A relationship read whose     *)
(* query succeeds, and every List, is answered 200 with a set of rows,     *)
(* empty when no row matches (never 404, also when the employee or         *)
(* department named does not exist); a Get-by-id is answered 200 with the  *)
(* one row, or 404 when no row has the id.                                 *)
C17_ReadsChangeNothing ==
    req.method = "GET" =>
        /\ tables = pre
        /\ (req.route \in DerivedRoutes /\ QuerySucceeds) =>
               resp.sent /\ resp.status = 200 /\ resp.body.kind = "rows"
        /\ \A t \in Groups :
               /\ req.route = CollectionRoute(t) =>
                      resp = Response(200, RowsBody({tables[t][k] : k \in DOMAIN tables[t]}))
               /\ req.route = ItemRoute(t) =>
                      /\ resp.sent
                      /\ resp.status = (IF req.id \in DOMAIN tables[t] THEN 200 ELSE 404)
                      /\ resp.body.kind = (IF req.id \in DOMAIN tables[t] THEN "row" ELSE "error")

\* Leaves are stored, and the leaves of an employee that does not exist are
\* asked for: 200 with no row.
C17_Witness ==
    /\ Read("/leave/requests/:employeeId")
    /\ req.id \notin DOMAIN tables["employees"]
    /\ DOMAIN tables["leaves"] # {}
    /\ resp = Response(200, RowsBody({}))
    /\ tables = pre

-----------------------------------------------------------------------------
\* The ids of the feedbacks that employee e gave or received.
FeedbackIdsOf(e) ==
    {k \in DOMAIN tables["feedbacks"] :
        \/ tables["feedbacks"][k]["from_employee"] = Some(e)
        \/ tables["feedbacks"][k]["to_employee"] = Some(e)}

(* C18: GET /employees/:id/feedbacks returns exactly the feedback rows     *)
(* whose from_employee or to_employee is id: a row with both equal to id   *)
(* once, and no row that involves other employees only.                    *)
C18_FeedbacksOfEmployee ==
    Read("/employees/:id/feedbacks") =>
        /\ resp = Response(200, RowsBody({tables["feedbacks"][k] : k \in FeedbackIdsOf(req.id)}))
        /\ Cardinality(resp.body.rows) = Cardinality(FeedbackIdsOf(req.id))
        /\ \A row \in resp.body.rows :
               row["from_employee"] = Some(req.id) \/ row["to_employee"] = Some(req.id)

\* The feedback employee 1 gave to employee 1 is the one row returned.
C18_Witness ==
    /\ Read("/employees/:id/feedbacks")
    /\ resp.sent /\ resp.status = 200
    /\ Cardinality(resp.body.rows) = 1
    /\ \E row \in resp.body.rows :
           row["from_employee"] = Some(req.id) /\ row["to_employee"] = Some(req.id)

-----------------------------------------------------------------------------
\* Among `fields`, the body of the request names, for a foreign key of t, an
\* id that had no row when the request arrived.
NamesMissingRow(t, fields) ==
    \E fk \in ForeignKeys :
        /\ fk[1] = t /\ fk[2] \in fields
        /\ Field(req.body, fk[2]) # NULL
        /\ \A j \in DOMAIN pre[fk[3]] : Field(req.body, fk[2]) # Some(j)

\* The store rejected the statement: nothing changed, and the handler, which
\* checks nothing itself, sent nothing.
RejectedByStore == tables = pre /\ resp = NoResponse

-----------------------------------------------------------------------------
(* C20: in every step and for every table, the id of a row is the value    *)
(* the table's sequence gave it and stays the row's key; only a Create     *)
(* adds a row, and the new row's id is the sequence's next value, whatever *)
(* id the body carries: it is greater than every id of the table, and the  *)
(* sequence never goes back, so an id that a Delete freed is not assigned  *)
(* again; an Update adds and removes no id.                                *)
C20_IdsAssignedByStore ==
    [][ \A t \in Groups :
          /\ seq'[t] >= seq[t]
          /\ \A k \in DOMAIN tables'[t] : tables'[t][k]["id"] = Some(k) /\ k < seq'[t]
          /\ \A k \in DOMAIN tables'[t] \ DOMAIN tables[t] :
                 /\ req'.method = "POST"
                 /\ k = seq[t] /\ seq'[t] = k + 1
                 /\ \A j \in DOMAIN tables[t] : j < k
          /\ req'.method = "PUT" => DOMAIN tables'[t] = DOMAIN tables[t]
      ]_vars

\* Department 1 was deleted, and the department created next, from a body
\* that carries id 3, has id 2.
C20_Witness ==
    /\ Handled("POST", "/departments")
    /\ Field(req.body, "id") = Some(3)
    /\ resp.sent /\ resp.status = 201
    /\ ResponseRow["id"] = Some(2)
    /\ DOMAIN tables["departments"] = {2}

-----------------------------------------------------------------------------
\* The request just handled is one of the three leave-workflow requests.
WorkflowHandled == \E w \in WorkflowRequests : Handled(w[1], w[2])

-----------------------------------------------------------------------------
(* C22: approve and reject set the status whatever it was: on an existing  *)
(* Leave row in any status (Pending, Approved, Rejected, or the null that  *)
(* PUT /leaves/:id writes), PUT /leave/approve/:id leaves the row with     *)
(* status "Approved" and PUT /leave/reject/:id with "Rejected", nothing    *)
(* else changes and the answer is 200; so the status after a sequence of   *)
(* calls is that of the last call, and the same call again changes nothing.*)
C22_ApproveRejectAnyStatus ==
    /\ (Handled("PUT", "/leave/approve/:leaveId") /\ req.id \in DOMAIN pre["leaves"]) =>
           /\ tables = WithLeaveStatus(req.id, Some("Approved"))
           /\ resp.sent /\ resp.status = 200
           /\ pre["leaves"][req.id]["status"] = Some("Approved") => tables = pre
    /\ (Handled("PUT", "/leave/reject/:leaveId") /\ req.id \in DOMAIN pre["leaves"]) =>
           /\ tables = WithLeaveStatus(req.id, Some("Rejected"))
           /\ resp.sent /\ resp.status = 200
           /\ pre["leaves"][req.id]["status"] = Some("Rejected") => tables = pre

\* A rejected leave is approved.
C22_Witness ==
    /\ Handled("PUT", "/leave/approve/:leaveId")
    /\ req.id \in DOMAIN pre["leaves"]
    /\ pre["leaves"][req.id]["status"] = Some("Rejected")
    /\ tables["leaves"][req.id]["status"] = Some("Approved")

-----------------------------------------------------------------------------
(* C23: POST /leave_policies with the body fields policy_name, description *)
(* and max_leaves is answered 201 with the created row, and the row is in  *)
(* the leave_policies table for GET /leave_policies/:id to return.         *)
C23_LeavePolicyCreated ==
    Handled("POST", "/leave_policies") =>
        /\ resp.sent /\ resp.status = 201 /\ resp.body.kind = "row"
        /\ \E k \in DOMAIN tables["leave_policies"] : tables["leave_policies"][k] = ResponseRow

-----------------------------------------------------------------------------
\* Row id of table t as PUT /T/:id writes it: every declared updatable field
\* takes the value of the body, null when the body does not carry it, and the
\* other columns keep their values.
Replaced(t, id) ==
    [c \in Columns(t) |-> IF c \in UpdateFields(t) THEN Field(req.body, c) ELSE pre[t][id][c]]

(* C27 as claimed: every PUT /T/:id on an existing row sets each declared  *)
(* updatable field to the body's value, null for a field the body omits,   *)
(* and leaves every other column and every other row as it was.           *)
C27_Original ==
    \A t \in Groups :
        (Handled("PUT", ItemRoute(t)) /\ req.id \in DOMAIN pre[t]) =>
            tables = [pre EXCEPT ![t][req.id] = Replaced(t, req.id)]

(* C27 amended: a PUT /T/:id on an existing row that the store accepts     *)
(* (it is answered then) sets each declared updatable field to the body's  *)
(* value, null for a field the body omits (PUT /leaves/:id without status  *)
(* clears the status), and leaves every other column and every other row   *)
(* as it was; a PUT that would null a NOT NULL column or name a missing    *)
(* referenced row is rejected by the store: no row changes and nothing is  *)
(* sent.                                                                   *)
C27_UpdateReplaces ==
    \A t \in Groups :
        (Handled("PUT", ItemRoute(t)) /\ req.id \in DOMAIN pre[t]) =>
            IF \/ \E c \in NotNullColumns(t) \cap UpdateFields(t) : Field(req.body, c) = NULL
               \/ NamesMissingRow(t, UpdateFields(t))
            THEN RejectedByStore
            ELSE /\ tables = [pre EXCEPT ![t][req.id] = Replaced(t, req.id)]
                 /\ resp = Response(200, [kind |-> "row", row |-> Replaced(t, req.id)])

\* A pending leave is updated with a body that carries no status: the row has
\* the dates of the body, a null status, and its employee_id and applied_on.
C27_Witness ==
    /\ Handled("PUT", "/leaves/:id")
    /\ req.id \in DOMAIN pre["leaves"]
    /\ pre["leaves"][req.id]["status"] = Some("Pending")
    /\ tables["leaves"][req.id]["status"] = NULL
    /\ tables["leaves"][req.id]["start_date"] = Field(req.body, "start_date")
    /\ tables["leaves"][req.id]["applied_on"] = pre["leaves"][req.id]["applied_on"]

-----------------------------------------------------------------------------
(* One statement per request.                                              *)

\* Sequence values handed out before the last request arrived.
InsertedBefore ==
    (preSeq["departments"] - 1) + (preSeq["employees"] - 1)
    + (preSeq["attendance_logs"] - 1) + (preSeq["leave_policies"] - 1)
    + (preSeq["leaves"] - 1) + (preSeq["leave_balances"] - 1)
    + (preSeq["feedbacks"] - 1) + (preSeq["projects"] - 1) + (preSeq["timesheets"] - 1)

\* The number of sequence values the last request's statements consumed: an
\* INSERT draws one value from its table's sequence, accepted or not.
SequenceValuesDrawn == Inserted - InsertedBefore

\* The rows the last request's statements inserted, changed or deleted.
RowsWritten ==
    IF tables = pre THEN {}
    ELSE UNION {{<<t, k>> : k \in {j \in DOMAIN tables[t] \cup DOMAIN pre[t] :
                                      \/ j \notin DOMAIN tables[t]
                                      \/ j \notin DOMAIN pre[t]
                                      \/ tables[t][j] # pre[t][j]}} :
                   t \in {u \in TableNames : tables[u] # pre[u]}}

\* The handler of the last request saw its query rejected: it sent nothing, or
\* the 500 of its catch block.
QueryFailed ==
    req # NoRequest /\ (resp = NoResponse \/ resp.status = 500)

(* C24: every handler issues one statement per request and never retries.  *)
(* A request draws at most one sequence value (one INSERT ran, once) and   *)
(* writes at most one row, the row of the sequence value it drew if it     *)
(* drew one; a request whose query the store rejected has written nothing: *)
(* the failure ended it.                                                   *)
C24_OneStatement ==
    req # NoRequest =>
        /\ SequenceValuesDrawn <= 1
        /\ \/ tables = pre
           \/ /\ ~QueryFailed
              /\ LET written == RowsWritten
                 IN  /\ Cardinality(written) = 1
                     /\ SequenceValuesDrawn = 1 =>
                            \E t \in TableNames :
                                seq[t] = preSeq[t] + 1 /\ written = {<<t, preSeq[t]>>}

\* POST /departments without a name: the INSERT is rejected, one sequence value
\* is gone, no row is written and no response is sent.
C24_Witness ==
    /\ Handled("POST", "/departments")
    /\ Field(req.body, "name") = NULL
    /\ resp = NoResponse
    /\ SequenceValuesDrawn = 1
    /\ RowsWritten = {}

-----------------------------------------------------------------------------
(* One response per request.                                               *)

\* The collection and item routes of the resource groups, and the group of
\* each.
CollectionRoutes == {CollectionRoute(t) : t \in Groups}
ItemRoutes == {ItemRoute(t) : t \in Groups}
GroupOfRoute ==
    [route \in CollectionRoutes \cup ItemRoutes |->
        CHOOSE t \in Groups : route \in {CollectionRoute(t), ItemRoute(t)}]

\* The handlers whose query sits in try/catch.
CaughtRoutes ==
    {"/timesheets/week/:employeeId", "/timesheets/day/:employeeId",
     "/projects/assigned/:employeeId"}

\* The row that POST /T would store lacks a NOT NULL value, or repeats a
\* UNIQUE value some row had when the request arrived.
BreaksRowConstraint(t) ==
    \/ \E c \in NotNullColumns(t) :
           IF c \in CreateFields(t) THEN Field(req.body, c) = NULL
           ELSE ColumnDefault(t, c) = NULL
    \/ \E c \in UniqueColumns(t) \cap CreateFields(t) :
           /\ Field(req.body, c) # NULL
           /\ \E k \in DOMAIN pre[t] : pre[t][k][c] = Field(req.body, c)

\* The store rejects the statement of the request just handled, given the rows
\* it held when the request arrived.
StatementRejected ==
    IF req.route \in CollectionRoutes
    THEN LET t == GroupOfRoute[req.route]
         IN  /\ req.method = "POST"
             /\ \/ ~(CreateFields(t) \subseteq Columns(t))
                \/ BreaksRowConstraint(t)
                \/ NamesMissingRow(t, CreateFields(t))
    ELSE IF req.route \in ItemRoutes
    THEN LET t == GroupOfRoute[req.route]
         IN  \/ /\ req.method = "PUT"
                /\ \/ ~(UpdateFields(t) \subseteq Columns(t))
                   \/ /\ req.id \in DOMAIN pre[t]
                      /\ \/ \E c \in NotNullColumns(t) \cap UpdateFields(t) :
                                Field(req.body, c) = NULL
                         \/ NamesMissingRow(t, UpdateFields(t))
             \/ /\ req.method = "DELETE"
                /\ req.id \in DOMAIN pre[t] /\ IsReferenced(pre, t, req.id)
    ELSE \/ /\ Handled("DELETE", "/leave/cancel/:leaveId")
            /\ req.id \in DOMAIN pre["leaves"] /\ IsReferenced(pre, "leaves", req.id)
         \/ /\ req.method = "GET" /\ req.route \in DerivedRoutes
            /\ ~QuerySucceeds

(* C29: every request gets at most one response from its handler.  When    *)
(* the store accepts the statement the handler sends exactly one response  *)
(* (the 404 branch returns before the success response); when the store    *)
(* rejects it, a handler without try/catch sends nothing and no row has    *)
(* changed, and a handler with try/catch sends its one 500.                *)
C29_OneResponse ==
    req # NoRequest =>
        /\ resp.sends <= 1
        /\ IF ~StatementRejected THEN resp.sends = 1 /\ resp.status # 500
           ELSE IF req.route \notin CaughtRoutes THEN resp.sends = 0 /\ tables = pre
           ELSE resp.sends = 1 /\ resp.status = 500 /\ tables = pre

\* DELETE /feedbacks/:id on an id without a row, feedbacks being stored: the
\* 404 is the one response.
C29_Witness ==
    /\ Handled("DELETE", "/feedbacks/:id")
    /\ req.id \notin DOMAIN pre["feedbacks"]
    /\ DOMAIN pre["feedbacks"] # {}
    /\ resp.sends = 1 /\ resp.status = 404

-----------------------------------------------------------------------------
(* A handler as a function of its request and the store.                   *)

\* The values POST /T binds: the body's fields, `status || "Pending"` for a
\* leave.
CreateValues(t, body) ==
    IF t = "leaves"
    THEN [Pick(body, CreateFields(t)) EXCEPT
             !["status"] = IF Falsy(Field(body, "status")) THEN Some("Pending")
                           ELSE Field(body, "status")]
    ELSE Pick(body, CreateFields(t))

\* SELECT * FROM t WHERE employee_id = $1
SelectByEmployee(tbls, sq, t, id) ==
    SelectWhere(tbls, sq, t, {k \in DOMAIN tbls[t] : tbls[t][k]["employee_id"] = Some(id)})

\* The one statement the handler of request r sends, run on the store
\* <<tbls, sq>>.
Statement(r, tbls, sq) ==
    IF r.route \in CollectionRoutes
    THEN LET t == GroupOfRoute[r.route]
         IN  IF r.method = "GET" THEN SelectAll(tbls, sq, t)
             ELSE InsertReturning(tbls, sq, t, CreateFields(t), CreateValues(t, r.body))
    ELSE IF r.route \in ItemRoutes
    THEN LET t == GroupOfRoute[r.route]
         IN  CASE r.method = "GET"    -> SelectWhereId(tbls, sq, t, r.id)
               [] r.method = "PUT"    -> UpdateWhereId(tbls, sq, t, UpdateFields(t),
                                                       Pick(r.body, UpdateFields(t)), r.id)
               [] r.method = "DELETE" -> DeleteWhereId(tbls, sq, t, r.id)
    ELSE CASE r.route = "/leave/approve/:leaveId" ->
                  UpdateWhereId(tbls, sq, "leaves", {"status"},
                                [c \in {"status"} |-> Some("Approved")], r.id)
           [] r.route = "/leave/reject/:leaveId" ->
                  UpdateWhereId(tbls, sq, "leaves", {"status"},
                                [c \in {"status"} |-> Some("Rejected")], r.id)
           [] r.route = "/leave/cancel/:leaveId" ->
                  DeleteWhereId(tbls, sq, "leaves", r.id)
           [] r.route = "/departments/:id/employees" ->
                  SelectWhere(tbls, sq, "employees",
                              {k \in DOMAIN tbls["employees"] :
                                  tbls["employees"][k]["department_id"] = Some(r.id)})
           [] r.route = "/timesheets/week/:employeeId" ->
                  IF DatesConvert(r.query, {"start"})
                  THEN SelectWhere(tbls, sq, "timesheets",
                           {k \in DOMAIN tbls["timesheets"] :
                               /\ tbls["timesheets"][k]["employee_id"] = Some(r.id)
                               /\ \E d \in DayOf(r.query["start"]) :
                                      Between(tbls["timesheets"][k]["log_date"],
                                              d, d + WeekSpan)})
                  ELSE FailureWith(tbls, sq, InvalidDateMessage)
           [] r.route = "/timesheets/day/:employeeId" ->
                  IF DatesConvert(r.query, {"date"})
                  THEN SelectWhere(tbls, sq, "timesheets",
                           {k \in DOMAIN tbls["timesheets"] :
                               /\ tbls["timesheets"][k]["employee_id"] = Some(r.id)
                               /\ r.query["date"] # NULL
                               /\ tbls["timesheets"][k]["log_date"] = DayOf(r.query["date"])})
                  ELSE FailureWith(tbls, sq, InvalidDateMessage)
           [] r.route = "/projects/assigned/:employeeId" ->
                  FailureWith(tbls, sq, UndefinedTableMessage)
           [] r.route = "/leave/requests/:employeeId" ->
                  SelectByEmployee(tbls, sq, "leaves", r.id)
           [] r.route = "/employees/:id/leaves" ->
                  SelectByEmployee(tbls, sq, "leaves", r.id)
           [] r.route = "/employees/:id/leave-balances" ->
                  SelectByEmployee(tbls, sq, "leave_balances", r.id)
           [] r.route = "/employees/:id/timesheets" ->
                  SelectByEmployee(tbls, sq, "timesheets", r.id)
           [] r.route = "/employees/:id/attendance" ->
                  IF DatesConvert(r.query, {"start", "end"})
                  THEN SelectWhere(tbls, sq, "attendance_logs",
                           {k \in DOMAIN tbls["attendance_logs"] :
                               /\ tbls["attendance_logs"][k]["employee_id"] = Some(r.id)
                               /\ \E lo \in DayOf(r.query["start"]),
                                      hi \in DayOf(r.query["end"]) :
                                      Between(tbls["attendance_logs"][k]["date"], lo, hi)})
                  ELSE FailureWith(tbls, sq, InvalidDateMessage)
           [] r.route = "/employees/:id/feedbacks" ->
                  SelectWhere(tbls, sq, "feedbacks",
                      {k \in DOMAIN tbls["feedbacks"] :
                          \/ tbls["feedbacks"][k]["from_employee"] = Some(r.id)
                          \/ tbls["feedbacks"][k]["to_employee"] = Some(r.id)})
           [] r.route = "/attendance/missing/:date" ->
                  IF DatesConvert(r.query, {"date"})
                  THEN LET logs == tbls["attendance_logs"]
                           present == {logs[j]["employee_id"] :
                                          j \in {i \in DOMAIN logs :
                                                    /\ logs[i]["date"] # NULL
                                                    /\ logs[i]["date"] = DayOf(r.query["date"])}}
                       IN  SelectWhere(tbls, sq, "employees",
                               {k \in DOMAIN tbls["employees"] : NotIn(k, present)})
                  ELSE FailureWith(tbls, sq, InvalidDateMessage)

\* What the handler of request r sends once its statement came back with
\* `result`.
Reply(r, result) ==
    IF ~result.ok
    THEN IF r.route \in CaughtRoutes THEN Response(500, ErrorBody(result.message))
         ELSE NoResponse
    ELSE IF r.route \in CollectionRoutes
    THEN IF r.method = "GET" THEN Response(200, RowsBody(result.rows))
         ELSE Response(201, FirstRowBody(result.rows))
    ELSE IF r.route \in ItemRoutes
    THEN LET t == GroupOfRoute[r.route]
         IN  CASE r.method = "GET" -> RowOrNotFound(result, NotFoundMessage(t))
               [] r.method = "PUT" ->
                      IF t = "employees" THEN Response(200, FirstRowBody(result.rows))
                      ELSE UpdatedOrNotFound(result, NotFoundMessage(t))
               [] r.method = "DELETE" ->
                      IF t = "employees" THEN Response(204, EmptyBody)
                      ELSE DeletedOrNotFound(result, NotFoundMessage(t),
                               IF t = "departments" THEN "Deleted successfully"
                               ELSE DeletedMessage(t))
    ELSE IF r.method = "GET" THEN Response(200, RowsBody(result.rows))
    ELSE SendStatus(200)

\* The store after request r and the response to it, r reaching the store
\* <<tbls, sq>>.
Outcome(r, tbls, sq) ==
    LET result == Statement(r, tbls, sq)
    IN  [tables |-> result.tables, seq |-> result.seq, resp |-> Reply(r, result)]

(* C26: handlers are stateless and deterministic.  The store after a       *)
(* request and the response to it are a function of the request (method,   *)
(* route, parameters, body) and of the store the statement ran on, the     *)
(* same function wherever in a run the request arrives; between requests   *)
(* the server holds nothing but the store.                                 *)
C26_FunctionOfRequestAndStore ==
    /\ req # NoRequest =>
           <<tables, seq, resp>> =
               LET o == Outcome(req, pre, preSeq) IN <<o.tables, o.seq, o.resp>>
    /\ Idle => (resp = NoResponse /\ pre = tables /\ preSeq = seq)

\* GET /departments after a department was created and another request
\* rejected: the answer is the rows of the store.
C26_Witness ==
    /\ Handled("GET", "/departments")
    /\ preSeq["departments"] = 3
    /\ Cardinality(DOMAIN pre["departments"]) = 1
    /\ resp = Response(200, RowsBody({pre["departments"][k] : k \in DOMAIN pre["departments"]}))

-----------------------------------------------------------------------------
(* Requests in flight together.  An async handler runs to its one await,   *)
(* where it has sent its statement; the store runs the statements one at a *)
(* time, in whatever order they reach it; the handler resumes with the     *)
(* result of its own statement and answers.                                *)

\* The store the concurrent requests find: an employee, a project, a timesheet
\* on the project and a pending leave, created by four requests in turn.
SeedRequests ==
    << Request("POST", "/employees", 0,
               [name |-> Some("Ada"), email |-> Some("ada@x.com"), phone |-> NULL,
                doj |-> NULL]),
       Request("POST", "/projects", 0, [name |-> Some("Apollo"), client |-> Some("NASA")]),
       Request("POST", "/timesheets", 0,
               [employee_id |-> NULL, project_id |-> Some(1), log_date |-> Some(7),
                hours |-> Some(4), notes |-> Some("review")]),
       Request("POST", "/leaves", 0,
               [employee_id |-> Some(1), type |-> Some("Sick"), start_date |-> Some(1),
                end_date |-> Some(2), status |-> Some("")]) >>

\* The store after the requests of `requests`, one after the other, from the
\* store <<tbls, sq>>, with the response to each.
SequentialRun(requests, tbls, sq) ==
    LET run[n \in 0 .. Len(requests)] ==
            IF n = 0 THEN [tables |-> tbls, seq |-> sq, resp |-> <<>>]
            ELSE LET o == Outcome(requests[n], run[n - 1].tables, run[n - 1].seq)
                 IN  [tables |-> o.tables, seq |-> o.seq,
                      resp |-> Append(run[n - 1].resp, o.resp)]
    IN  run[Len(requests)]

ConcStart ==
    SequentialRun(SeedRequests, [t \in TableNames |-> [k \in {} |-> NULL]],
                  [t \in TableNames |-> 1])

\* The requests that race: on timesheet 1, on project 1 (which timesheet 1
\* references), on leave 1, and a further timesheet.
ConcRequests ==
    { Request("DELETE", "/timesheets/:id", 1, NoBody),
      Request("PUT", "/timesheets/:id", 1,
              [employee_id |-> Some(1), project_id |-> Some(1), log_date |-> Some(7),
               hours |-> Some(4), notes |-> Some("review")]),
      Request("DELETE", "/projects/:id", 1, NoBody),
      Request("PUT", "/projects/:id", 1, [name |-> Some("Gemini"), client |-> NULL]),
      Request("PUT", "/leaves/:id", 1,
              [type |-> Some("Casual"), start_date |-> Some(3), end_date |-> Some(4)]),
      Request("PUT", "/leave/approve/:leaveId", 1, NoBody),
      Request("DELETE", "/leave/cancel/:leaveId", 1, NoBody),
      Request("GET", "/leaves/:id", 1, NoBody),
      Request("POST", "/timesheets", 0,
              [employee_id |-> Some(1), project_id |-> Some(1), log_date |-> Some(1),
               hours |-> Some(8), notes |-> NULL]) }

ConcInit ==
    /\ tables = ConcStart.tables
    /\ seq = ConcStart.seq
    /\ pre = tables
    /\ preSeq = seq
    /\ req = NoRequest
    /\ resp = NoResponse
    /\ flight = [s \in Slots |-> NoFlight]
    /\ executed = <<>>
    /\ dispatched = NoDispatch

\* What pool.query resolves or rejects with: the result without the store.
Returned(result) ==
    [f \in DOMAIN result \ {"tables", "seq"} |-> result[f]]

\* A request arrives: its handler reads the request, sends its statement
\* through pool.query and suspends at the await.  (Slots are taken in order.)
Arrive ==
    \E s \in Slots, r \in ConcRequests :
        /\ flight[s].phase = "none"
        /\ \A u \in Slots : u < s => flight[u].phase # "none"
        /\ flight' = [flight EXCEPT ![s] = [NoFlight EXCEPT !.phase = "awaiting",
                                                            !.request = r]]
        /\ UNCHANGED <<tables, seq, pre, preSeq, req, resp, executed, dispatched>>

\* The store running a DELETE as a lookup followed by the removal, the
\* lookup's answer being that of the store the requests found at the start.
Execute_StaleLookup ==
    \E s \in Slots :
        /\ flight[s].phase = "awaiting"
        /\ LET r == flight[s].request
               result == Statement(r, tables, seq)
               stale == IF r.method = "DELETE"
                        THEN Statement(r, ConcStart.tables, ConcStart.seq)
                        ELSE result
           IN  /\ tables' = result.tables
               /\ seq' = result.seq
               /\ flight' = [flight EXCEPT ![s].phase = "settled",
                                           ![s].result = Returned(stale)]
        /\ executed' = Append(executed, s)
        /\ UNCHANGED <<pre, preSeq, req, resp, dispatched>>

\* The store runs the statement of one waiting request, whole, on the rows it
\* holds at that moment.
Execute ==
    \E s \in Slots :
        /\ flight[s].phase = "awaiting"
        /\ LET result == Statement(flight[s].request, tables, seq)
           IN  /\ tables' = result.tables
               /\ seq' = result.seq
               /\ flight' = [flight EXCEPT ![s].phase = "settled",
                                           ![s].result = Returned(result)]
        /\ executed' = Append(executed, s)
        /\ UNCHANGED <<pre, preSeq, req, resp, dispatched>>

\* PUT /T/:id deciding between 404 and 200 by a second look at the store after
\* the await (does the row exist now?) in place of the UPDATE's rowCount.
Respond_LooksAgain ==
    \E s \in Slots :
        /\ flight[s].phase = "settled"
        /\ LET r == flight[s].request
               again == IF r.method = "PUT" /\ r.route \in ItemRoutes
                             /\ flight[s].result.ok
                             /\ r.id \notin DOMAIN tables[GroupOfRoute[r.route]]
                        THEN [flight[s].result EXCEPT !.rowCount = 0, !.rows = {}]
                        ELSE flight[s].result
           IN  flight' = [flight EXCEPT ![s].phase = "done",
                                       ![s].resp = Reply(r, again)]
        /\ UNCHANGED <<tables, seq, pre, preSeq, req, resp, executed, dispatched>>

\* The handler of a settled statement resumes after its await and answers from
\* the result (or, the promise rejected and nothing catching it, does not).
Respond ==
    \E s \in Slots :
        /\ flight[s].phase = "settled"
        /\ flight' = [flight EXCEPT ![s].phase = "done",
                                    ![s].resp = Reply(flight[s].request, flight[s].result)]
        /\ UNCHANGED <<tables, seq, pre, preSeq, req, resp, executed, dispatched>>

ConcNext == Arrive \/ Execute \/ Respond

ConcSpec == ConcInit /\ [][ConcNext]_vars

\* The requests of the slots of `order`, in that order.
RequestsOf(order) == [n \in 1 .. Len(order) |-> flight[order[n]].request]

(* C25: whatever the interleaving of the requests in flight, the store and *)
(* every response sent are those of the same requests handled one after    *)
(* the other in the order in which their statements ran.                   *)
C25_SequentialEquivalent ==
    LET run == SequentialRun(RequestsOf(executed), ConcStart.tables, ConcStart.seq)
    IN  /\ tables = run.tables
        /\ seq = run.seq
        /\ \A n \in 1 .. Len(executed) :
               flight[executed[n]].phase = "done" =>
                   flight[executed[n]].resp = run.resp[n]

\* PUT /leaves/1 arrives, then the approve of leave 1; the approve's
\* statement runs first, the PUT's second, and both are answered: the leave
\* ends with the null status of the PUT.
C25_Witness ==
    /\ flight[1].request.route = "/leaves/:id" /\ flight[1].request.method = "PUT"
    /\ flight[2].request.route = "/leave/approve/:leaveId"
    /\ executed = <<2, 1>>
    /\ flight[1].phase = "done" /\ flight[2].phase = "done"
    /\ flight[1].resp.status = 200 /\ flight[2].resp.status = 200
    /\ tables["leaves"][1]["status"] = NULL

-----------------------------------------------------------------------------
\* Slots a and b hold the only requests of the run, and both are over.
OnlyPairDone(a, b) ==
    /\ a # b
    /\ flight[a].phase = "done" /\ flight[b].phase = "done"
    /\ \A u \in Slots \ {a, b} : flight[u].phase = "none"

\* Slot s holds `method` on the item route of t, for a row the requests found.
OnItem(s, method, t) ==
    /\ flight[s].request.method = method
    /\ flight[s].request.route = ItemRoute(t)
    /\ flight[s].request.id \in DOMAIN ConcStart.tables[t]

\* One of the two slots was answered 200 with the deletion message of t, the
\* other 404 with its not-found message.
OneDeletedOneMissing(a, b, t) ==
    \E x \in {a, b} : \E y \in {a, b} \ {x} :
        /\ flight[x].resp = Response(200, MessageBody(DeletedMessage(t)))
        /\ flight[y].resp = Response(404, ErrorBody(NotFoundMessage(t)))

(* C28 as claimed: two DELETE /T/:id (T not employees) on the same          *)
(* existing id in flight together end with one 200 carrying the success    *)
(* message and one 404, and a PUT /T/:id racing a DELETE /T/:id on the     *)
(* same id ends with the row gone.                                         *)
C28_Original ==
    \A t \in NonEmployeeGroups : \A a \in Slots, b \in Slots :
        /\ ( /\ OnlyPairDone(a, b)
             /\ OnItem(a, "DELETE", t) /\ OnItem(b, "DELETE", t)
             /\ flight[a].request.id = flight[b].request.id )
               => OneDeletedOneMissing(a, b, t)
        /\ ( /\ OnlyPairDone(a, b)
             /\ OnItem(a, "PUT", t) /\ OnItem(b, "DELETE", t)
             /\ flight[a].request.id = flight[b].request.id )
               => flight[b].request.id \notin DOMAIN tables[t]

(* C28 amended: for an existing row that no row of another table           *)
(* references, two DELETE /T/:id (T not employees) in flight together end  *)
(* with one 200 carrying the success message and one 404, and a PUT /T/:id *)
(* racing a DELETE /T/:id ends with the row gone, in every interleaving.   *)
(* For a row that is referenced (a project by a timesheet) the store       *)
(* rejects every DELETE: neither DELETE is answered and the row stays.     *)
C28_DeleteRaces ==
    \A t \in NonEmployeeGroups : \A a \in Slots, b \in Slots :
        /\ ( /\ OnlyPairDone(a, b)
             /\ OnItem(a, "DELETE", t) /\ OnItem(b, "DELETE", t)
             /\ flight[a].request.id = flight[b].request.id )
               => IF IsReferenced(ConcStart.tables, t, flight[a].request.id)
                  THEN /\ flight[a].resp = NoResponse /\ flight[b].resp = NoResponse
                       /\ flight[a].request.id \in DOMAIN tables[t]
                  ELSE /\ OneDeletedOneMissing(a, b, t)
                       /\ flight[a].request.id \notin DOMAIN tables[t]
        /\ ( /\ OnlyPairDone(a, b)
             /\ OnItem(a, "PUT", t) /\ OnItem(b, "DELETE", t)
             /\ flight[a].request.id = flight[b].request.id )
               => IF IsReferenced(ConcStart.tables, t, flight[a].request.id)
                  THEN /\ flight[b].resp = NoResponse
                       /\ flight[b].request.id \in DOMAIN tables[t]
                  ELSE flight[b].request.id \notin DOMAIN tables[t]

\* Two DELETE /timesheets/1 in flight together, the later arrival's statement
\* running first: it is answered 200, the earlier arrival 404.
C28_Witness ==
    /\ OnlyPairDone(1, 2)
    /\ OnItem(1, "DELETE", "timesheets") /\ OnItem(2, "DELETE", "timesheets")
    /\ executed = <<2, 1>>
    /\ flight[2].resp = Response(200, MessageBody("Timesheet deleted successfully"))
    /\ flight[1].resp = Response(404, ErrorBody("Timesheet not found"))
    /\ DOMAIN tables["timesheets"] = {}

-----------------------------------------------------------------------------
(* The router.  app.METHOD(path, handler) appends a route to the stack;    *)
(* a request walks the stack in registration order and runs the handler of *)
(* each route whose method and path template match, going on to the next   *)
(* route only when a handler calls next().  (express.json, which every     *)
(* request passes through, and the /api-docs mount are no route handlers   *)
(* and are left out.)                                                      *)

\* The path parameters of the templates.
PathParams == {":id", ":employeeId", ":leaveId", ":date"}

Route(method, template) == [method |-> method, template |-> template, next |-> FALSE]

\* The five routes server.js registers for a resource group, in its order.
CrudRoutes(t) ==
    << Route("GET", <<t>>), Route("GET", <<t, ":id">>), Route("POST", <<t>>),
       Route("PUT", <<t, ":id">>), Route("DELETE", <<t, ":id">>) >>

\* The stack of server.js, in registration order; no handler calls next().
Registered ==
    CrudRoutes("departments") \o CrudRoutes("employees") \o CrudRoutes("leave_policies")
    \o CrudRoutes("leaves") \o CrudRoutes("leave_balances")
    \o CrudRoutes("attendance_logs") \o CrudRoutes("feedbacks")
    \o CrudRoutes("projects") \o CrudRoutes("timesheets")
    \o << Route("GET", <<"leave", "requests", ":employeeId">>),
          Route("DELETE", <<"leave", "cancel", ":leaveId">>),
          Route("PUT", <<"leave", "approve", ":leaveId">>),
          Route("PUT", <<"leave", "reject", ":leaveId">>),
          Route("GET", <<"timesheets", "week", ":employeeId">>),
          Route("GET", <<"timesheets", "day", ":employeeId">>),
          Route("GET", <<"projects", "assigned", ":employeeId">>),
          Route("GET", <<>>) >>

\* path-to-regexp: the path has the template's segments, a parameter standing
\* for any one segment.
MatchesTemplate(template, path) ==
    /\ Len(template) = Len(path)
    /\ \A i \in 1 .. Len(template) : template[i] \in PathParams \/ template[i] = path[i]

\* The routes whose handlers run for `method` on `path`, in the order they run.
HandlersRun(method, path) ==
    LET n == Len(Registered)
        walk[j \in 0 .. n] ==
            \* the handlers run among the last j routes of the stack
            IF j = 0 THEN <<>>
            ELSE LET route == Registered[n - j + 1]
                 IN  IF route.method = method /\ MatchesTemplate(route.template, path)
                     THEN IF route.next THEN <<route>> \o walk[j - 1] ELSE <<route>>
                     ELSE walk[j - 1]
    IN  walk[n]

\* The requests handed to the router.
Methods == {"GET", "POST", "PUT", "DELETE"}
Segments ==
    {"departments", "employees", "projects", "timesheets", "leaves", "leave",
     "attendance", "week", "day", "assigned", "requests", "cancel", "missing", "5"}
Paths == UNION {[1 .. n -> Segments] : n \in 1 .. MaxSegments}

DispatchInit ==
    /\ tables = [t \in TableNames |-> [k \in {} |-> NULL]]
    /\ seq = [t \in TableNames |-> 1]
    /\ pre = tables
    /\ preSeq = seq
    /\ req = NoRequest
    /\ resp = NoResponse
    /\ flight = [s \in Slots |-> NoFlight]
    /\ executed = <<>>
    /\ dispatched = NoDispatch

\* A request reaches the router, which is through with the one before.
Dispatch ==
    /\ dispatched = NoDispatch
    /\ \E method \in Methods, path \in Paths :
           dispatched' = [method |-> method, path |-> path,
                          ran |-> HandlersRun(method, path)]
    /\ UNCHANGED <<tables, seq, pre, preSeq, req, resp, flight, executed>>

\* The walk over the stack is over; the router keeps nothing of the request.
EndDispatch ==
    /\ dispatched # NoDispatch
    /\ dispatched' = NoDispatch
    /\ UNCHANGED <<tables, seq, pre, preSeq, req, resp, flight, executed>>

DispatchNext == Dispatch \/ EndDispatch

DispatchSpec == DispatchInit /\ [][DispatchNext]_vars

\* The endpoints of the API: the five of each resource group, the leave
\* workflow, and the relationship reads.
Endpoint(method, template) == [method |-> method, template |-> template]
NamedEndpoints ==
    UNION {{Endpoint("GET", <<t>>), Endpoint("GET", <<t, ":id">>), Endpoint("POST", <<t>>),
            Endpoint("PUT", <<t, ":id">>), Endpoint("DELETE", <<t, ":id">>)} : t \in Groups}
    \cup {Endpoint("GET", <<"leave", "requests", ":employeeId">>),
          Endpoint("DELETE", <<"leave", "cancel", ":leaveId">>),
          Endpoint("PUT", <<"leave", "approve", ":leaveId">>),
          Endpoint("PUT", <<"leave", "reject", ":leaveId">>),
          Endpoint("GET", <<"timesheets", "week", ":employeeId">>),
          Endpoint("GET", <<"timesheets", "day", ":employeeId">>),
          Endpoint("GET", <<"projects", "assigned", ":employeeId">>),
          Endpoint("GET", <<"departments", ":id", "employees">>),
          Endpoint("GET", <<"employees", ":id", "leave-balances">>),
          Endpoint("GET", <<"employees", ":id", "attendance">>),
          Endpoint("GET", <<"employees", ":id", "leaves">>),
          Endpoint("GET", <<"employees", ":id", "feedbacks">>),
          Endpoint("GET", <<"employees", ":id", "timesheets">>),
          Endpoint("GET", <<"attendance", "missing", ":date">>)}

(* C30: the router runs at most one handler per request, the first         *)
(* registered route whose method and template match: a handler that runs   *)
(* has a template of as many segments as the path (GET /timesheets/week/5  *)
(* is not taken by GET /timesheets/:id), and a request for any endpoint of *)
(* the API runs the one handler registered for that endpoint.              *)
C30_Dispatch ==
    dispatched # NoDispatch =>
        /\ Len(dispatched.ran) <= 1
        /\ \A i \in 1 .. Len(dispatched.ran) :
               Len(dispatched.ran[i].template) = Len(dispatched.path)
        /\ \A e \in NamedEndpoints :
               (dispatched.method = e.method /\ MatchesTemplate(e.template, dispatched.path))
                   => dispatched.ran = <<Route(e.method, e.template)>>

====
